---- MODULE Spec2Model ----
(***************************************************************************)
(* A model of release-hub, a self-update client: release conversion and    *)
(* asset resolution (src/github.rs), the update check (src/builder.rs),    *)
(* the staged-installer install/relaunch of the privileged-installer       *)
(* platform (src/windows.rs) and the swap install of the atomic-swap       *)
(* platform (src/macos.rs).                                                *)
(*                                                                         *)
(* Strings that the code inspects (asset names, release tags) are          *)
(* sequences of one-character strings, so that substring search, suffix    *)
(* tests, lowercasing and prefix trimming are computed, not assumed.       *)
(***************************************************************************)
EXTENDS Integers, Sequences, FiniteSets, TLC

(***************************************************************************)
(* Bounds of the model.                                                    *)
(***************************************************************************)
\* longest asset list of a release
MaxAssets == 2
\* largest numeric component of a version in a tag or a current version
MaxDigit == 1
\* most leading "v" characters of a tag
MaxLeadingV == 2
\* longest downloaded buffer handed to install
MaxLen == 2
\* most temporary directories the process creates
MaxTempDirs == 2
\* most install calls of a process on the atomic-swap platform
MaxInstalls == 2
\* most installer arguments a builder is given
MaxArgs == 2
\* most chunks of a response body
MaxChunks == 2
\* most bytes of a chunk
MaxChunkLen == 2
\* most calls of update, download_and_install and download by one application
MaxCalls == 1

(***************************************************************************)
(* Result<T, Error> of src/error.rs: Ok(v) or Err(kind, detail).           *)
(***************************************************************************)
Ok(v) == [ok |-> TRUE, val |-> v]

Err(kind, detail) == [ok |-> FALSE, err |-> kind, detail |-> detail]

\* an error variant that carries a native code, InstallerExecutionFailed(i32)
ErrCode(kind, code) == [ok |-> FALSE, err |-> kind, code |-> code]

\* std::process::exit(code): the call does not return
Exit(code) == [exit_code |-> code]

\* Option<T>: None is the empty sequence, Some(x) the one-element sequence
None == <<>>

Some(x) == <<x>>

\* a classification that matched no token
NoToken == "NoToken"

(***************************************************************************)
(* str helpers as the standard library computes them.                      *)
(***************************************************************************)
\* str::contains(pat): pat occurs as a contiguous substring of s
contains(s, pat) ==
  \E i \in 1..(Len(s) - Len(pat) + 1) : SubSeq(s, i, i + Len(pat) - 1) = pat

\* str::ends_with(pat)
ends_with(s, pat) ==
  /\ Len(s) >= Len(pat)
  /\ SubSeq(s, Len(s) - Len(pat) + 1, Len(s)) = pat

\* char::to_lowercase on the letters that occur in the modelled names
LowerChar(c) ==
  CASE c = "A" -> "a"
    [] c = "D" -> "d"
    [] c = "X" -> "x"
    [] OTHER -> c

\* str::to_lowercase
to_lowercase(s) == [i \in 1..Len(s) |-> LowerChar(s[i])]

\* removal of at most one leading c
strip_prefix_once(s, c) ==
  IF s # <<>> /\ Head(s) = c THEN Tail(s) ELSE s

\* str::trim_start_matches('v'): strips every leading 'v'
RECURSIVE trim_start_matches(_, _)
trim_start_matches(s, c) ==
  IF Len(s) > 0 /\ s[1] = c THEN trim_start_matches(Tail(s), c) ELSE s

(***************************************************************************)
(* Asset names a release source may serve.                                 *)
(***************************************************************************)
\* "app-1.0.0-linux-x86_64.tar.gz"
NameLinuxTarGz == <<"a","p","p","-","1",".","0",".","0","-","l","i","n","u","x","-","x","8","6","_","6","4",".","t","a","r",".","g","z">>
\* "app-1.1.0-aarch64-apple-darwin.app.zip"
NameDarwinArmZip == <<"a","p","p","-","1",".","1",".","0","-","a","a","r","c","h","6","4","-","a","p","p","l","e","-","d","a","r","w","i","n",".","a","p","p",".","z","i","p">>
\* "App-X86_64-Apple-Darwin.app.zip"
NameDarwinX64ZipUpper == <<"A","p","p","-","X","8","6","_","6","4","-","A","p","p","l","e","-","D","a","r","w","i","n",".","a","p","p",".","z","i","p">>
\* "app-x86_64-windows.exe"
NameWindowsX64Exe == <<"a","p","p","-","x","8","6","_","6","4","-","w","i","n","d","o","w","s",".","e","x","e">>
\* "app-macos-arm64.dmg"
NameMacosArmDmg == <<"a","p","p","-","m","a","c","o","s","-","a","r","m","6","4",".","d","m","g">>
\* "b-arm64-macos.app.zip"
NameMacosArmZipB == <<"b","-","a","r","m","6","4","-","m","a","c","o","s",".","a","p","p",".","z","i","p">>
\* "b-amd64-win.exe"
NameWinAmdExeB == <<"b","-","a","m","d","6","4","-","w","i","n",".","e","x","e">>
\* "app-osx-riscv.app.zip"
NameOsxRiscvZip == <<"a","p","p","-","o","s","x","-","r","i","s","c","v",".","a","p","p",".","z","i","p">>
\* "app-win-arm64.zip"
NameWinArmPlainZip == <<"a","p","p","-","w","i","n","-","a","r","m","6","4",".","z","i","p">>

AssetNames ==
  { NameLinuxTarGz, NameDarwinArmZip, NameDarwinX64ZipUpper, NameWindowsX64Exe,
    NameMacosArmDmg, NameMacosArmZipB, NameWinAmdExeB,
    NameOsxRiscvZip, NameWinArmPlainZip }

(***************************************************************************)
(* get_assets: classification of one asset name, then of the whole list.   *)
(***************************************************************************)
\* the closure of get_assets applied to one octocrab Asset
ClassifyAsset(raw) ==
  LET name == to_lowercase(raw)
      os == IF \/ contains(name, <<"m","a","c","o","s">>)
               \/ contains(name, <<"d","a","r","w","i","n">>)
               \/ contains(name, <<"o","s","x">>)
            THEN "Macos"
            ELSE IF \/ contains(name, <<"w","i","n","d","o","w","s">>)
                    \/ contains(name, <<"w","i","n">>)
                 THEN "Windows"
                 ELSE NoToken
      arch == IF \/ contains(name, <<"x","8","6","_","6","4">>)
                 \/ contains(name, <<"a","m","d","6","4">>)
              THEN "X86_64"
              ELSE IF \/ contains(name, <<"a","a","r","c","h","6","4">>)
                      \/ contains(name, <<"a","r","m","6","4">>)
                   THEN "Arm64"
                   ELSE NoToken
      bundle_type ==
        IF ends_with(name, <<".","d","m","g">>) THEN "MacOSDMG"
        ELSE IF ends_with(name, <<".","a","p","p",".","z","i","p">>) THEN "MacOSAppZip"
        ELSE IF ends_with(name, <<".","m","s","i">>) THEN "WindowsMSI"
        ELSE IF ends_with(name, <<".","e","x","e">>) THEN "WindowsSetUp"
        ELSE NoToken
  IN IF os = NoToken THEN Err("TargetNotFound", "macos or windows")
     ELSE IF arch = NoToken THEN Err("TargetNotFound", "x86_64 or amd64")
     ELSE IF bundle_type = NoToken THEN Err("TargetNotFound", "os-arch")
     ELSE Ok([name |-> name, os |-> os, arch |-> arch, bundle_type |-> bundle_type])

\* the classification of every servable name, computed once
Classified == [n \in AssetNames |-> ClassifyAsset(n)]

\* get_assets that drops the names it cannot classify instead of failing
get_assets_skipping(raws) ==
  LET RECURSIVE Keep(_)
      Keep(q) == IF q = <<>> THEN <<>>
                 ELSE IF Classified[Head(q)].ok
                      THEN <<Classified[Head(q)].val>> \o Keep(Tail(q))
                      ELSE Keep(Tail(q))
  IN Ok(Keep(raws))

\* get_assets: map + collect::<Result<Vec<_>>>, i.e. the first error in list
\* order, otherwise the classified assets in the same order
get_assets(raws) ==
  LET bad == { i \in 1..Len(raws) : ~Classified[raws[i]].ok }
  IN IF bad # {}
     THEN Classified[raws[CHOOSE i \in bad : \A j \in bad : i <= j]]
     ELSE Ok([i \in 1..Len(raws) |-> Classified[raws[i]].val])

(***************************************************************************)
(* semver::Version as used by TryFrom<Release> and Updater::check.         *)
(* A version is [major, minor, patch, pre]; pre is the pre-release         *)
(* identifier as a character sequence, empty for a release version.        *)
(***************************************************************************)
Digits == {"0","1","2","3","4","5","6","7","8","9"}

DigitVal(c) ==
  CASE c = "0" -> 0 [] c = "1" -> 1 [] c = "2" -> 2 [] c = "3" -> 3
    [] c = "4" -> 4 [] c = "5" -> 5 [] c = "6" -> 6 [] c = "7" -> 7
    [] c = "8" -> 8 [] c = "9" -> 9

DigitChar(n) ==
  CASE n = 0 -> "0" [] n = 1 -> "1" [] n = 2 -> "2" [] n = 3 -> "3"
    [] n = 4 -> "4" [] n = 5 -> "5" [] n = 6 -> "6" [] n = 7 -> "7"
    [] n = 8 -> "8" [] n = 9 -> "9"

PreChars == {"a", "b"}

\* Version::parse on the single-digit grammar of the modelled tags:
\* D.D.D or D.D.D-P with D one digit and P one or more letters
VersionParse(s) ==
  LET coreOk == /\ Len(s) >= 5
                /\ s[1] \in Digits /\ s[2] = "." /\ s[3] \in Digits
                /\ s[4] = "." /\ s[5] \in Digits
      preOk == \/ Len(s) = 5
               \/ /\ Len(s) >= 7
                  /\ s[6] = "-"
                  /\ \A i \in 7..Len(s) : s[i] \in PreChars
  IN IF coreOk /\ preOk
     THEN Ok([major |-> DigitVal(s[1]), minor |-> DigitVal(s[3]),
              patch |-> DigitVal(s[5]),
              pre |-> IF Len(s) = 5 THEN <<>> ELSE SubSeq(s, 7, Len(s))])
     ELSE Err("Semver", "parse")

\* Display of a Version (the inverse direction, used to build tags)
VersionString(v) ==
  <<DigitChar(v.major), ".", DigitChar(v.minor), ".", DigitChar(v.patch)>>
    \o (IF v.pre = <<>> THEN <<>> ELSE <<"-">> \o v.pre)

CharRank(c) == IF c = "a" THEN 1 ELSE 2

\* lexical order of two pre-release identifiers
RECURSIVE LexLess(_, _)
LexLess(a, b) ==
  IF b = <<>> THEN FALSE
  ELSE IF a = <<>> THEN TRUE
  ELSE IF CharRank(a[1]) # CharRank(b[1]) THEN CharRank(a[1]) < CharRank(b[1])
  ELSE LexLess(Tail(a), Tail(b))

\* Prerelease ordering: an empty pre-release is greater than any other
PreLess(a, b) ==
  IF a = <<>> THEN FALSE
  ELSE IF b = <<>> THEN TRUE
  ELSE LexLess(a, b)

\* impl Ord for Version: a > b
VersionGreater(a, b) ==
  IF a.major # b.major THEN a.major > b.major
  ELSE IF a.minor # b.minor THEN a.minor > b.minor
  ELSE IF a.patch # b.patch THEN a.patch > b.patch
  ELSE PreLess(b.pre, a.pre)

(***************************************************************************)
(* The bounded inputs: versions, tags, releases, build targets.            *)
(***************************************************************************)
Versions ==
  { [major |-> ma, minor |-> mi, patch |-> 0, pre |-> p] :
      ma \in 0..MaxDigit, mi \in 0..MaxDigit, p \in {<<>>, <<"a">>} }

LeadingV(n) == [i \in 1..n |-> "v"]

\* "1.0" and "x1.0.0": tags that are not versions
MalformedTags == { <<"1", ".", "0">>, <<"x", "1", ".", "0", ".", "0">> }

Tags ==
  { LeadingV(n) \o VersionString(v) : n \in 0..MaxLeadingV, v \in Versions }
    \cup MalformedTags

RECURSIVE SeqsUpTo(_, _)
SeqsUpTo(S, n) ==
  IF n = 0 THEN { <<>> }
  ELSE LET shorter == SeqsUpTo(S, n - 1)
       IN shorter \cup { Append(q, x) : q \in { r \in shorter : Len(r) = n - 1 }, x \in S }

\* the tags served together with the longer asset lists: "v"-prefixed release
\* versions and one tag that is not a version
PlainTags ==
  { LeadingV(1) \o VersionString(v) : v \in { w \in Versions : w.pre = <<>> } }
    \cup { <<"1", ".", "0">> }

\* octocrab Release: the tag and the ordered asset names; every tag with every
\* asset list of at most one name, the plain tags with every asset list
Releases ==
  [tag_name : Tags, assets : SeqsUpTo(AssetNames, 1)]
    \cup [tag_name : PlainTags, assets : SeqsUpTo(AssetNames, MaxAssets)]

\* cfg!(target_os), cfg!(target_arch) of the build
TargetOs == {"macos", "windows"}

TargetArch == {"x86_64", "aarch64", "x86"}

(***************************************************************************)
(* SystemInfo::current (src/utils.rs)                                      *)
(***************************************************************************)
SystemInfoCurrent(tos, tarch) ==
  LET os == IF tos = "macos" THEN "Macos"
            ELSE IF tos = "windows" THEN "Windows"
            ELSE NoToken
      arch == IF tarch = "x86_64" THEN "X86_64"
              ELSE IF tarch = "aarch64" THEN "Arm64"
              ELSE NoToken
  IN IF os = NoToken THEN Err("UnsupportedOs", "")
     ELSE IF arch = NoToken THEN Err("UnsupportedArch", "")
     ELSE Ok([os |-> os, arch |-> arch])

(***************************************************************************)
(* impl TryFrom<Release> for GitHubRelease                                 *)
(***************************************************************************)
try_from(release) ==
  LET version == VersionParse(trim_start_matches(release.tag_name, "v"))
      assets == get_assets(release.assets)
  IN IF ~version.ok THEN version
     ELSE IF ~assets.ok THEN assets
     ELSE Ok([version |-> version.val, assets |-> assets.val])

(***************************************************************************)
(* GitHubRelease::find_proper_asset                                        *)
(***************************************************************************)
\* the bundle kind the cfg(target_os) arm of find_proper_asset asks for
RequiredBundleType(tos) ==
  IF tos = "windows" THEN "WindowsSetUp" ELSE "MacOSAppZip"

\* the closure without the bundle-kind test
AssetMatches_no_kind(asset, system_info, tos) ==
  /\ asset.os = system_info.os
  /\ asset.arch = system_info.arch

\* the closure handed to Iterator::find
AssetMatches(asset, system_info, tos) ==
  /\ asset.os = system_info.os
  /\ asset.arch = system_info.arch
  /\ asset.bundle_type = RequiredBundleType(tos)

\* a search that keeps the last element that satisfies the closure
RECURSIVE IterFind_last(_, _, _)
IterFind_last(assets, system_info, tos) ==
  IF assets = <<>> THEN None
  ELSE LET later == IterFind_last(Tail(assets), system_info, tos)
       IN IF later # None THEN later
          ELSE IF (/\ Head(assets).os = system_info.os
                   /\ Head(assets).arch = system_info.arch
                   /\ Head(assets).bundle_type = (IF tos = "windows" THEN "WindowsSetUp" ELSE "MacOSAppZip"))
               THEN Some(Head(assets)) ELSE None

\* Iterator::find: the first element, in order, that satisfies the closure
RECURSIVE IterFind(_, _, _)
IterFind(assets, system_info, tos) ==
  IF assets = <<>> THEN None
  ELSE IF AssetMatches(Head(assets), system_info, tos) THEN Some(Head(assets))
  ELSE IterFind(Tail(assets), system_info, tos)

find_proper_asset(gh_release, tos, tarch) ==
  LET system_info == SystemInfoCurrent(tos, tarch)
  IN IF ~system_info.ok THEN system_info
     ELSE LET found == IterFind(gh_release.assets, system_info.val, tos)
          IN IF found = None THEN Err("AssetNotFound", "") ELSE Ok(found[1])

(***************************************************************************)
(* State.                                                                  *)
(***************************************************************************)
VARIABLES
  target_os,        \* cfg!(target_os) of the build
  target_arch,      \* cfg!(target_arch) of the build
  current_version,  \* Updater.current_version
  release,          \* the latest release the release source serves
  installer_args,   \* UpdaterBuilder.installer_args, then Updater.installer_args
  stage,            \* "builder" until build is called, then "built" (there is
                    \* an Updater) or "failed" (build returned an error)
  resolved,         \* Updater.latest_release and Updater.proper_asset of the
                    \* Updater the application holds
  returned,         \* Some([op, value]) for the last call of check or
                    \* proper_asset and what it returned, None before
  calls,            \* number of update, download_and_install and download calls
  netReturned       \* Some([op, value, ...]) for the last call of update,
                    \* download_and_install or download, None before

\* what build fixes for the life of the Updater
updaterVars == <<target_os, target_arch, current_version, release,
                 installer_args, stage, resolved>>

checkVars == <<updaterVars, returned, calls, netReturned>>

\* the process on the privileged-installer platform (src/windows.rs)
VARIABLES
  UPDATER_FILE,      \* static OnceLock<OsString>: None or Some(path)
  TEMP_FILE_KEEPER,  \* static Mutex<Option<TempPath>>: None or Some(path)
  disk,              \* installer path |-> length of the file there, or Absent
  temp_dirs,         \* number of temporary directories created so far
  running,           \* FALSE once the process called std::process::exit
  launched,          \* Some(path) once ShellExecuteW started an installer
  relaunch_called,   \* whether relaunch has been called in this process
  winReturned,       \* Some([op, exit, value, ...]) for the last call of
                     \* install or relaunch, None before
  threads            \* install thread |-> [pc, temp_path, res]: where the
                     \* thread is in install_inner, its local temp_path, and
                     \* what its call returned

winVars == <<UPDATER_FILE, TEMP_FILE_KEEPER, disk, temp_dirs, running, launched,
             relaunch_called, winReturned, threads>>

\* the process on the atomic-swap platform (src/macos.rs)
VARIABLES
  macfs,         \* location |-> content of the directory there, or NoDir
  path_has_ext,  \* whether the file name of extract_path has an extension
  installs,      \* number of install calls so far
  macRunning,    \* FALSE once the process exited or panicked
  opened,        \* whether relaunch spawned `open -n` on the install path
  macReturned    \* Some([op, value, ...]) for the last call of install or
                 \* relaunch, None before

macVars == <<macfs, path_has_ext, installs, macRunning, opened, macReturned>>

vars == <<checkVars, winVars, macVars>>

(***************************************************************************)
(* Updater::latest_release, Updater::proper_asset, Updater::check          *)
(***************************************************************************)
\* fetched: whether GitHubClient::get_latest_release got the release
latest_release(fetched) ==
  IF fetched THEN try_from(release) ELSE Err("GitHub", "")

proper_asset(fetched) ==
  LET latest == latest_release(fetched)
  IN IF ~latest.ok THEN latest
     ELSE find_proper_asset(latest.val, target_os, target_arch)

\* check with "not older" in place of "strictly newer"
check_not_older(fetched) ==
  LET latest == latest_release(fetched)
  IN IF ~latest.ok THEN latest
     ELSE IF ~VersionGreater(current_version, latest.val.version)
          THEN LET asset == find_proper_asset(latest.val, target_os, target_arch)
               IN IF ~asset.ok THEN asset
                  ELSE Ok(Some([latest_release |-> Some(latest.val),
                                proper_asset |-> Some(asset.val)]))
          ELSE Ok(None)

\* Ok(Some(Updater)) carries the two resolved fields of the new Updater,
\* Ok(None) is "no update"
check(fetched) ==
  LET latest == latest_release(fetched)
  IN IF ~latest.ok THEN latest
     ELSE IF VersionGreater(latest.val.version, current_version)
          THEN LET asset == find_proper_asset(latest.val, target_os, target_arch)
               IN IF ~asset.ok THEN asset
                  ELSE Ok(Some([latest_release |-> Some(latest.val),
                                proper_asset |-> Some(asset.val)]))
          ELSE Ok(None)

(***************************************************************************)
(* The check specification: every build target, current version and       *)
(* served release; the operations are check and proper_asset.              *)
(***************************************************************************)
\* no file on the disk
Absent == -1

\* the installer paths: one file per temporary directory; path 0 is the file
\* in the fallback directory under the current directory, whose name is fixed
FallbackPath == 0

InstallerPaths == 0..MaxTempDirs

\* the threads of the process that call install concurrently
InstallThreads == {"A", "B"}

\* a thread that has not called install: pc is "idle", then "line37" (before
\* the assignment to the keeper), "line40" (before UPDATER_FILE.set), "done"
IdleThread == [pc |-> "idle", temp_path |-> <<>>, res |-> <<>>]

\* a process that has staged nothing
WinIdle ==
  /\ threads = [t \in InstallThreads |-> IdleThread]
  /\ UPDATER_FILE = None
  /\ TEMP_FILE_KEEPER = None
  /\ disk = [p \in InstallerPaths |-> Absent]
  /\ temp_dirs = 0
  /\ running = TRUE
  /\ launched = None
  /\ relaunch_called = FALSE
  /\ winReturned = None

\* latest_release: None, proper_asset: None
Unresolved == [latest_release |-> <<>>, proper_asset |-> <<>>]

\* an Updater built from a builder that was given no installer arguments,
\* on which no network operation has been called
FreshUpdater ==
  /\ installer_args = <<>>
  /\ resolved = Unresolved
  /\ stage = "built"
  /\ calls = 0
  /\ netReturned = None

\* no directory at a location
NoDir == 0

\* the content of the install path before the first install ("C1"); the
\* k-th install call stages the content k + 1
FirstContent == 1

\* the locations install works on: the install path (extract_path), the
\* directory current_app inside the temporary backup directory, the
\* sibling extract_path.with_extension("backup"), and the sibling named
\* extract_path followed by ".backup" that the privileged script uses
Locations == {"install", "tmp_backup", "backup_replaced_ext", "backup_appended"}

\* a process with the application installed that has not installed anything
MacIdle ==
  /\ macfs = [l \in Locations |-> IF l = "install" THEN FirstContent ELSE NoDir]
  /\ path_has_ext = TRUE
  /\ installs = 0
  /\ macRunning = TRUE
  /\ opened = FALSE
  /\ macReturned = None

InitCheck ==
  /\ WinIdle
  /\ MacIdle
  /\ FreshUpdater
  /\ target_os \in TargetOs
  /\ target_arch \in TargetArch
  /\ current_version \in Versions
  /\ release \in Releases
  /\ returned = None

Check ==
  /\ stage = "built"
  /\ \E fetched \in BOOLEAN :
       returned' = Some([op |-> "check", value |-> check(fetched)])
  /\ UNCHANGED <<updaterVars, calls, netReturned>>
  /\ UNCHANGED <<winVars, macVars>>

ProperAsset ==
  /\ stage = "built"
  /\ \E fetched \in BOOLEAN :
       returned' = Some([op |-> "proper_asset", value |-> proper_asset(fetched)])
  /\ UNCHANGED <<updaterVars, calls, netReturned>>
  /\ UNCHANGED <<winVars, macVars>>

NextCheck == Check \/ ProperAsset

SpecCheck == InitCheck /\ [][NextCheck]_vars

(***************************************************************************)
(* Vocabulary of the properties of check and asset resolution.  The        *)
(* platform's wanted (OS, architecture, bundle kind) and the version       *)
(* order are restated here from the specification, not taken from the      *)
(* operators above.                                                        *)
(***************************************************************************)
IsErr(r, kind) == ~r.ok /\ r.err = kind

CheckReturned == returned # None /\ returned[1].op = "check"

ProperAssetReturned == returned # None /\ returned[1].op = "proper_asset"

\* the release source answered and the release converted
Converted == returned # None /\ ~IsErr(returned[1].value, "GitHub") /\ try_from(release).ok

WantedOs == IF target_os = "macos" THEN "Macos" ELSE "Windows"

WantedArch ==
  IF target_arch = "x86_64" THEN "X86_64"
  ELSE IF target_arch = "aarch64" THEN "Arm64" ELSE "unsupported"

\* setup executable on the privileged-installer platform, application-bundle
\* archive on the atomic-swap platform
WantedKind == IF target_os = "macos" THEN "MacOSAppZip" ELSE "WindowsSetUp"

\* the positions of the assets of a converted release that satisfy the
\* (OS, architecture, bundle-kind) predicate
MatchingIndexes(assets) ==
  { i \in 1..Len(assets) :
      /\ assets[i].os = WantedOs
      /\ assets[i].arch = WantedArch
      /\ assets[i].bundle_type = WantedKind }

MinOf(S) == CHOOSE i \in S : \A j \in S : i <= j

\* a precedes b in semantic-version order
Precedes(a, b) ==
  \/ a.major < b.major
  \/ a.major = b.major /\ a.minor < b.minor
  \/ a.major = b.major /\ a.minor = b.minor /\ a.patch < b.patch
  \/ /\ a.major = b.major /\ a.minor = b.minor /\ a.patch = b.patch
     /\ a.pre # <<>>
     /\ (b.pre = <<>> \/ LexLess(a.pre, b.pre))

\* the value is Ok(Some(updater)) with both resolved fields set
IsUpdater(value) ==
  /\ value.ok
  /\ value.val # None
  /\ value.val[1].latest_release # None
  /\ value.val[1].proper_asset # None

IsNoUpdate(value) == value.ok /\ value.val = None

(***************************************************************************)
(* C2 as stated: check returns an Updater with both resolved fields        *)
(* exactly when the release version is strictly greater than the current   *)
(* version, and "no update" for every release that is equal or lower.      *)
(* Refuted: a newer release without a matching asset makes check return    *)
(* AssetNotFound.                                                          *)
(***************************************************************************)
C2_UpdaterIffNewer ==
  (CheckReturned /\ Converted) =>
    LET rel == try_from(release).val
        newer == Precedes(current_version, rel.version)
    IN /\ IsUpdater(returned[1].value) <=> newer
       /\ ~newer => IsNoUpdate(returned[1].value)

(***************************************************************************)
(* C2 amended: for a release that converts, check returns an Updater with  *)
(* both resolved fields (that release, and its matching asset) exactly     *)
(* when the release version is strictly greater than the current version   *)
(* and an asset of the release matches the platform; it returns "no        *)
(* update" for every release that is equal or lower, and an error when the *)
(* release is newer and no asset matches.                                  *)
(***************************************************************************)
C2_UpdaterIffNewerAndMatching ==
  (CheckReturned /\ Converted) =>
    LET rel == try_from(release).val
        newer == Precedes(current_version, rel.version)
        matching == MatchingIndexes(rel.assets)
        value == returned[1].value
    IN /\ IsUpdater(value) <=> (newer /\ matching # {})
       /\ IsUpdater(value) =>
            /\ value.val[1].latest_release = Some(rel)
            /\ \E i \in matching : value.val[1].proper_asset = Some(rel.assets[i])
       /\ ~newer => IsNoUpdate(value)
       /\ (newer /\ matching = {}) => ~value.ok

\* check returned an Updater for a release one minor version above the current
C2_Witness ==
  /\ CheckReturned /\ Converted
  /\ IsUpdater(returned[1].value)
  /\ current_version = [major |-> 1, minor |-> 0, patch |-> 0, pre |-> <<>>]
  /\ release.tag_name = <<"v", "1", ".", "1", ".", "0">>

(***************************************************************************)
(* C5 as stated: resolving an asset from a release whose only asset is     *)
(* "app-1.0.0-linux-x86_64.tar.gz" fails with AssetNotFound.  Refuted: the *)
(* name matches no OS token, so the conversion of the release fails with   *)
(* TargetNotFound before any asset is looked for.                          *)
(***************************************************************************)
C5_LinuxOnlyIsAssetNotFound ==
  (ProperAssetReturned /\ ~IsErr(returned[1].value, "GitHub")
     /\ release.assets = <<NameLinuxTarGz>>
     /\ release.tag_name \in PlainTags /\ Len(release.tag_name) > 3
     /\ WantedArch # "unsupported")
    => IsErr(returned[1].value, "AssetNotFound")

(***************************************************************************)
(* C5 amended: resolving an asset from a release whose only asset is       *)
(* "app-1.0.0-linux-x86_64.tar.gz" fails with TargetNotFound; a release    *)
(* all of whose assets classify and none of which matches the macOS or     *)
(* Windows target fails with AssetNotFound.                                *)
(***************************************************************************)
C5_NoMatchFails ==
  (ProperAssetReturned /\ ~IsErr(returned[1].value, "GitHub")
     /\ VersionParse(trim_start_matches(release.tag_name, "v")).ok
     /\ WantedArch # "unsupported")
    => /\ release.assets = <<NameLinuxTarGz>>
            => IsErr(returned[1].value, "TargetNotFound")
       /\ ( /\ \A i \in 1..Len(release.assets) : Classified[release.assets[i]].ok
            /\ MatchingIndexes([i \in 1..Len(release.assets) |->
                                  Classified[release.assets[i]].val]) = {} )
            => IsErr(returned[1].value, "AssetNotFound")

\* both cases: the Linux-only release, and a release of classified assets
\* none of which is for the target
C5_WitnessLinux ==
  /\ ProperAssetReturned
  /\ release.assets = <<NameLinuxTarGz>>
  /\ IsErr(returned[1].value, "TargetNotFound")

C5_WitnessNoMatch ==
  /\ ProperAssetReturned
  /\ release.assets = <<NameMacosArmDmg, NameWindowsX64Exe>>
  /\ target_os = "macos"
  /\ IsErr(returned[1].value, "AssetNotFound")

(***************************************************************************)
(* C6: on a converted release, asset resolution returns the first asset,   *)
(* in the release's asset order, whose OS, architecture and bundle kind    *)
(* are the platform's; it fails with AssetNotFound exactly when no asset   *)
(* satisfies all three.                                                    *)
(***************************************************************************)
C6_FirstMatchInOrder ==
  (ProperAssetReturned /\ Converted /\ WantedArch # "unsupported") =>
    LET rel == try_from(release).val
        matching == MatchingIndexes(rel.assets)
        value == returned[1].value
    IN /\ IsErr(value, "AssetNotFound") <=> matching = {}
       /\ matching # {} => value = Ok(rel.assets[MinOf(matching)])

\* resolution skipped a non-matching first asset and returned the second
C6_Witness ==
  /\ ProperAssetReturned /\ Converted
  /\ returned[1].value.ok
  /\ Len(release.assets) = 2
  /\ MatchingIndexes(try_from(release).val.assets) = {2}

(***************************************************************************)
(* C7 as stated: installation proceeds only when exactly one asset         *)
(* satisfies the predicate, so for a release with two or more matching     *)
(* assets check yields no asset.  Refuted: check returns the first of      *)
(* them.                                                                   *)
(***************************************************************************)
C7_UpdaterOnlyIfUniqueMatch ==
  (CheckReturned /\ Converted /\ IsUpdater(returned[1].value)) =>
    Cardinality(MatchingIndexes(try_from(release).val.assets)) = 1

(***************************************************************************)
(* C7 amended: check yields an asset to install only when at least one     *)
(* asset satisfies the predicate; for a newer release with two or more     *)
(* matching assets it yields the first of them in list order.              *)
(***************************************************************************)
C7_UpdaterIfSomeMatch ==
  (CheckReturned /\ Converted) =>
    LET rel == try_from(release).val
        matching == MatchingIndexes(rel.assets)
        value == returned[1].value
    IN /\ IsUpdater(value) => Cardinality(matching) >= 1
       /\ (Cardinality(matching) >= 2 /\ Precedes(current_version, rel.version))
            => /\ IsUpdater(value)
               /\ value.val[1].proper_asset = Some(rel.assets[MinOf(matching)])

\* check returned an Updater for a release with two matching assets
C7_Witness ==
  /\ CheckReturned /\ Converted
  /\ IsUpdater(returned[1].value)
  /\ Cardinality(MatchingIndexes(try_from(release).val.assets)) = 2

(***************************************************************************)
(* The privileged-installer platform (src/windows.rs).                     *)
(*                                                                         *)
(* A TempPath owns the file at its path: dropping it deletes the file.     *)
(* What the operating system does is an input of each operation: env for   *)
(* install (how the temporary directory, the file creation and the write   *)
(* went, what the file holds afterwards), the result code of ShellExecuteW *)
(* for relaunch.                                                           *)
(***************************************************************************)
Unit == "()"

\* the result codes ShellExecuteW is made to return
ResultCodes == {2, 5, 10, 32, 33, 1223}

\* the outcomes of the environment of one install call:
\*   mk       how make_temp_dir went: a fresh directory ("temp"), a fresh
\*            directory that is not there afterwards ("gone"), the fallback
\*            directory ("fallback"), or no directory at all ("fallback_err")
\*   create   whether tempfile_in could create the file
\*   write    whether write_all and flush succeeded
\*   written  what the file holds when it is verified: a length, or Absent
\*   kept     whether the file is still there when install_inner looks
\* Each outcome is listed once: a field that the call does not get to look at
\* has its unremarkable value.
InstallEnvs(bytes_len) ==
  [mk : {"gone", "fallback_err"}, create : {"ok"}, write : {"ok"},
   written : {bytes_len}, kept : {TRUE}]
  \cup
  [mk : {"temp", "fallback"}, create : {"err"}, write : {"ok"},
   written : {bytes_len}, kept : {TRUE}]
  \cup
  [mk : {"temp", "fallback"}, create : {"ok"}, write : {"err"},
   written : {bytes_len}, kept : {TRUE}]
  \cup
  [mk : {"temp", "fallback"}, create : {"ok"}, write : {"ok"},
   written : {Absent} \cup 0..bytes_len, kept : {TRUE}]
  \cup
  [mk : {"temp", "fallback"}, create : {"ok"}, write : {"ok"},
   written : {bytes_len}, kept : {FALSE}]

\* drop of an Option<TempPath>: the file it owns is deleted
DropKeeper(keeper, d) ==
  IF keeper = None THEN d ELSE [d EXCEPT ![keeper[1]] = Absent]

\* Updater::make_temp_dir
make_temp_dir(dirs, env) ==
  IF env.mk = "temp" THEN [res |-> Ok(dirs + 1), temp_dirs |-> dirs + 1]
  ELSE IF env.mk = "gone"
       THEN [res |-> Err("TempDirNotFound", ""), temp_dirs |-> dirs + 1]
  ELSE IF env.mk = "fallback" THEN [res |-> Ok(FallbackPath), temp_dirs |-> dirs]
  ELSE [res |-> Err("Io", "create_dir_all"), temp_dirs |-> dirs]

\* write_to_temp without the verification of the written file
write_to_temp_unverified(d, dirs, bytes_len, env) ==
  LET td == make_temp_dir(dirs, env)
      path == td.res.val
  IN IF ~td.res.ok
     THEN [res |-> td.res, disk |-> d, temp_dirs |-> td.temp_dirs, written |-> None]
     ELSE IF d[path] # Absent \/ env.create = "err"
          THEN [res |-> Err("Io", "tempfile_in"), disk |-> d,
                temp_dirs |-> td.temp_dirs, written |-> None]
     ELSE IF env.write = "err"
          THEN [res |-> Err("Io", "write_all"), disk |-> d,
                temp_dirs |-> td.temp_dirs, written |-> None]
     ELSE [res |-> Ok(path), disk |-> [d EXCEPT ![path] = env.written],
           temp_dirs |-> td.temp_dirs, written |-> Some(env.written)]

\* Updater::write_to_temp (and extract_exe, which only forwards to it):
\* Ok(path) stands for (path, Some(TempPath of path))
write_to_temp(d, dirs, bytes_len, env) ==
  LET td == make_temp_dir(dirs, env)
      path == td.res.val
  IN IF ~td.res.ok
     THEN [res |-> td.res, disk |-> d, temp_dirs |-> td.temp_dirs, written |-> None]
     \* tempfile_in: the name has no random part, the file must not exist
     ELSE IF d[path] # Absent \/ env.create = "err"
          THEN [res |-> Err("Io", "tempfile_in"), disk |-> d,
                temp_dirs |-> td.temp_dirs, written |-> None]
     \* write_all / flush failed: the NamedTempFile is dropped with its file
     ELSE IF env.write = "err"
          THEN [res |-> Err("Io", "write_all"), disk |-> d,
                temp_dirs |-> td.temp_dirs, written |-> None]
     \* the verification; on failure the TempPath is dropped with its file
     ELSE IF env.written = Absent \/ env.written # bytes_len
          THEN [res |-> Err("InvalidUpdaterFormat", ""), disk |-> d,
                temp_dirs |-> td.temp_dirs, written |-> Some(env.written)]
     ELSE [res |-> Ok(path), disk |-> [d EXCEPT ![path] = env.written],
           temp_dirs |-> td.temp_dirs, written |-> Some(env.written)]

\* Updater::install_inner
install_inner(updater_file, keeper, d, dirs, bytes_len, env) ==
  LET w == write_to_temp(d, dirs, bytes_len, env)
      temp_path == w.res.val
      same == [res |-> w.res, UPDATER_FILE |-> updater_file,
               TEMP_FILE_KEEPER |-> keeper, disk |-> w.disk,
               temp_dirs |-> w.temp_dirs, written |-> w.written]
  IN IF ~w.res.ok THEN same
     \* !temp_path.exists(): the new TempPath is dropped
     ELSE IF ~env.kept
          THEN [same EXCEPT !.res = Err("InvalidUpdaterFormat", ""),
                            !.disk = [w.disk EXCEPT ![temp_path] = Absent]]
     \* the keeper is replaced, which drops the TempPath it held; then
     \* OnceLock::set, which fails when the cell is already set
     ELSE [same EXCEPT
             !.TEMP_FILE_KEEPER = Some(temp_path),
             !.disk = DropKeeper(keeper, w.disk),
             !.UPDATER_FILE = IF updater_file = None THEN Some(temp_path)
                              ELSE updater_file,
             !.res = IF updater_file = None THEN Ok(Unit)
                     ELSE Err("InvalidUpdaterFormat", "")]

\* the match on the result of ShellExecuteW in relaunch_inner
ShellExecuteError(result) ==
  IF result = 2 THEN Err("InvalidUpdaterFormat", "")
  ELSE IF result = 5 THEN Err("InsufficientPrivileges", "")
  ELSE IF result = 32 THEN Err("FileInUse", "")
  ELSE IF result = 1223 THEN Err("UserCancelledElevation", "")
  ELSE ErrCode("InstallerExecutionFailed", result)

\* relaunch_inner that takes the result code 32 for a started installer
relaunch_inner_from_32(updater_file, keeper, d, result) ==
  LET same == [res |-> Err("InvalidUpdaterFormat", ""), exit |-> FALSE,
               TEMP_FILE_KEEPER |-> keeper, disk |-> d, launched |-> None,
               code |-> None, parameters |-> None]
  IN IF updater_file = None THEN same
     ELSE IF d[updater_file[1]] = Absent THEN same
     ELSE IF result < 32
          THEN [same EXCEPT !.res = ShellExecuteError(result),
                            !.TEMP_FILE_KEEPER = None,
                            !.disk = DropKeeper(keeper, d),
                            !.code = Some(result)]
     ELSE [same EXCEPT !.res = Exit(0),
                       !.exit = TRUE,
                       !.TEMP_FILE_KEEPER = None,
                       !.disk = DropKeeper(keeper, d),
                       !.launched = updater_file,
                       !.code = Some(result),
                       !.parameters = Some(<<>>)]

\* Updater::relaunch_inner; result is what ShellExecuteW returns if called
relaunch_inner(updater_file, keeper, d, result) ==
  LET same == [res |-> Err("InvalidUpdaterFormat", ""), exit |-> FALSE,
               TEMP_FILE_KEEPER |-> keeper, disk |-> d, launched |-> None,
               code |-> None, parameters |-> None]
  IN IF updater_file = None THEN same
     ELSE IF d[updater_file[1]] = Absent THEN same
     ELSE IF result <= 32
          THEN [same EXCEPT !.res = ShellExecuteError(result),
                            !.TEMP_FILE_KEEPER = None,
                            !.disk = DropKeeper(keeper, d),
                            !.code = Some(result)]
     ELSE [same EXCEPT !.res = Exit(0),
                       !.exit = TRUE,
                       !.TEMP_FILE_KEEPER = None,
                       !.disk = DropKeeper(keeper, d),
                       !.launched = updater_file,
                       !.code = Some(result),
                       \* lpParameters is w!(""): no argument
                       !.parameters = Some(<<>>)]

(***************************************************************************)
(* The process on the privileged-installer platform: any sequence of       *)
(* install and relaunch calls until the process exits.                     *)
(***************************************************************************)
InitWin ==
  /\ WinIdle
  /\ MacIdle
  /\ FreshUpdater
  /\ target_os = "windows"
  /\ target_arch = "x86_64"
  /\ current_version = [major |-> 0, minor |-> 0, patch |-> 0, pre |-> <<>>]
  /\ release = [tag_name |-> <<"1", ".", "0">>, assets |-> <<>>]
  /\ returned = None

\* Updater::install on this platform
InstallWith(bytes_len, env) ==
  /\ stage = "built"
  /\ running
  /\ env.mk \in {"temp", "gone"} => temp_dirs < MaxTempDirs
  /\ LET r == install_inner(UPDATER_FILE, TEMP_FILE_KEEPER, disk, temp_dirs,
                            bytes_len, env)
     IN /\ UPDATER_FILE' = r.UPDATER_FILE
        /\ TEMP_FILE_KEEPER' = r.TEMP_FILE_KEEPER
        /\ disk' = r.disk
        /\ temp_dirs' = r.temp_dirs
        /\ winReturned' = Some([op |-> "install", exit |-> FALSE, value |-> r.res,
                                bytes_len |-> bytes_len, written |-> r.written,
                                code |-> None, parameters |-> None])
  /\ UNCHANGED <<running, launched, relaunch_called, threads>>
  /\ UNCHANGED <<checkVars, macVars>>

Install ==
  \E bytes_len \in 0..MaxLen : \E env \in InstallEnvs(bytes_len) :
    InstallWith(bytes_len, env)

\* Updater::relaunch on this platform
RelaunchWith(result) ==
  /\ stage = "built"
  /\ running
  /\ LET r == relaunch_inner(UPDATER_FILE, TEMP_FILE_KEEPER, disk, result)
     IN /\ TEMP_FILE_KEEPER' = r.TEMP_FILE_KEEPER
        /\ disk' = r.disk
        /\ launched' = r.launched
        /\ running' = ~r.exit
        /\ winReturned' = Some([op |-> "relaunch", exit |-> r.exit, value |-> r.res,
                                bytes_len |-> 0, written |-> None,
                                code |-> r.code, parameters |-> r.parameters])
  /\ relaunch_called' = TRUE
  /\ UNCHANGED <<UPDATER_FILE, temp_dirs, threads>>
  /\ UNCHANGED <<checkVars, macVars>>

Relaunch == \E result \in ResultCodes : RelaunchWith(result)

NextWin == Install \/ Relaunch

SpecWin == InitWin /\ [][NextWin]_vars

\* the caller keeps calling install and relaunch, and the environment does
\* not fail forever: an install that can leave the recorded installer on disk
\* eventually does, and a relaunch that can start the installer eventually does
SpecWinFair ==
  /\ SpecWin
  /\ WF_vars(Install)
  /\ WF_vars(Relaunch)
  /\ SF_vars(Install /\ UPDATER_FILE' # None /\ disk'[UPDATER_FILE'[1]] # Absent)
  /\ SF_vars(Relaunch /\ launched' # None)

(***************************************************************************)
(* Two threads of one process call install concurrently.  A step of a      *)
(* thread is what it does without another thread being able to run in      *)
(* between: the staging of the file up to the existence test (lines 29 to  *)
(* 35), the assignment to the keeper under its lock (line 37), and         *)
(* OnceLock::set (lines 39 to 44).                                         *)
(***************************************************************************)
\* lines 29-35: extract_exe, then `if !temp_path.exists()`
ThreadExtract(t, bytes_len, env) ==
  /\ threads[t].pc = "idle"
  /\ env.mk \in {"temp", "gone"} => temp_dirs < MaxTempDirs
  /\ LET w == write_to_temp(disk, temp_dirs, bytes_len, env)
     IN /\ temp_dirs' = w.temp_dirs
        /\ IF ~w.res.ok
           THEN /\ disk' = w.disk
                /\ threads' = [threads EXCEPT ![t].pc = "done", ![t].res = Some(w.res)]
           ELSE IF ~env.kept
           THEN /\ disk' = [w.disk EXCEPT ![w.res.val] = Absent]
                /\ threads' = [threads EXCEPT
                                 ![t].pc = "done",
                                 ![t].res = Some(Err("InvalidUpdaterFormat", ""))]
           ELSE /\ disk' = w.disk
                /\ threads' = [threads EXCEPT ![t].pc = "line37",
                                              ![t].temp_path = Some(w.res.val)]
  /\ UNCHANGED <<UPDATER_FILE, TEMP_FILE_KEEPER, running, launched,
                 relaunch_called, winReturned>>
  /\ UNCHANGED <<checkVars, macVars>>

\* line 37: *TEMP_FILE_KEEPER.lock().unwrap() = temp_keeper; the TempPath
\* that was there is dropped, and the lock is released at the end of the
\* statement
ThreadSetKeeper(t) ==
  /\ threads[t].pc = "line37"
  /\ TEMP_FILE_KEEPER' = threads[t].temp_path
  /\ disk' = DropKeeper(TEMP_FILE_KEEPER, disk)
  /\ threads' = [threads EXCEPT ![t].pc = "line40"]
  /\ UNCHANGED <<UPDATER_FILE, temp_dirs, running, launched, relaunch_called,
                 winReturned>>
  /\ UNCHANGED <<checkVars, macVars>>

\* lines 39-44: UPDATER_FILE.set(file).map_err(..)?; Ok(())
ThreadSetUpdaterFile(t) ==
  /\ threads[t].pc = "line40"
  /\ UPDATER_FILE' = IF UPDATER_FILE = None THEN threads[t].temp_path
                     ELSE UPDATER_FILE
  /\ threads' = [threads EXCEPT
                   ![t].pc = "done",
                   ![t].res = Some(IF UPDATER_FILE = None THEN Ok(Unit)
                                   ELSE Err("InvalidUpdaterFormat", ""))]
  /\ UNCHANGED <<TEMP_FILE_KEEPER, disk, temp_dirs, running, launched,
                 relaunch_called, winReturned>>
  /\ UNCHANGED <<checkVars, macVars>>

NextWinConcurrent ==
  \E t \in InstallThreads :
    \/ \E bytes_len \in 0..MaxLen : \E env \in InstallEnvs(bytes_len) :
         ThreadExtract(t, bytes_len, env)
    \/ ThreadSetKeeper(t)
    \/ ThreadSetUpdaterFile(t)

SpecWinConcurrent == InitWin /\ [][NextWinConcurrent]_vars

(***************************************************************************)
(* Vocabulary of the properties of the privileged-installer platform.      *)
(***************************************************************************)
InstallReturned == winReturned # None /\ winReturned[1].op = "install"

RelaunchExited == winReturned # None /\ winReturned[1].op = "relaunch"

\* relaunch called ShellExecuteW, which returned a failure code: this is how
\* a declined elevation prompt reaches relaunch
RelaunchRefused ==
  /\ RelaunchExited
  /\ ~winReturned[1].exit
  /\ winReturned[1].code # None

(***************************************************************************)
(* C3 as stated: from the moment an install call returns success until     *)
(* relaunch is called, the staged installer file at the recorded path      *)
(* exists on disk, also after further install calls.  Refuted by the code: *)
(* a second install replaces the keeper, which deletes the recorded file,  *)
(* and then fails to record the new path.                                  *)
(***************************************************************************)
C3_StagedFileSurvivesInstalls ==
  (UPDATER_FILE # None /\ ~relaunch_called) => disk[UPDATER_FILE[1]] # Absent

(***************************************************************************)
(* C4 as stated: relaunch maps the result code of the elevated launch: 2   *)
(* to file-not-found (InvalidUpdaterFormat in this code), 5 to             *)
(* insufficient-privileges, 32 to file-in-use, 1223 to                     *)
(* user-cancelled-elevation, any other failure code c to the generic       *)
(* installer-execution failure carrying c.  Refuted by the code: 1223 is   *)
(* above 32 and is taken for a successful launch.                          *)
(***************************************************************************)
C4_ResultCodeMapping ==
  (RelaunchExited /\ winReturned[1].code # None) =>
    LET c == winReturned[1].code[1]
        value == winReturned[1].value
        failed(kind) == ~winReturned[1].exit /\ IsErr(value, kind)
    IN /\ c = 2 => failed("InvalidUpdaterFormat")
       /\ c = 5 => failed("InsufficientPrivileges")
       /\ c = 32 => failed("FileInUse")
       /\ c = 1223 => failed("UserCancelledElevation")
       /\ (c \notin {2, 5, 32, 1223} /\ c <= 32)
            => failed("InstallerExecutionFailed") /\ value.code = c

(***************************************************************************)
(* C8 as stated: every exit from relaunch leaves the handoff state empty,  *)
(* neither the installer path nor its owning handle remains recorded.      *)
(* Refuted by the code: the path is in a OnceLock that is never cleared,   *)
(* and the two early returns leave the keeper as it was.                   *)
(***************************************************************************)
C8_RelaunchEmptiesHandoff ==
  RelaunchExited => (UPDATER_FILE = None /\ TEMP_FILE_KEEPER = None)

(***************************************************************************)
(* C9 as stated: after relaunch failed because the elevation was declined, *)
(* a retry in the same process (relaunch again, or install and relaunch)   *)
(* gets the installer launched.  Refuted by the code under SpecWinFair:    *)
(* the failed relaunch deleted the staged file, and the recorded path can  *)
(* never be replaced.                                                      *)
(***************************************************************************)
C9_RefusedRelaunchRecoverable == RelaunchRefused ~> (launched # None)

(***************************************************************************)
(* C10: install of a buffer of length L succeeds only if the staged file   *)
(* has length exactly L; whenever the written file is missing or its       *)
(* length differs from L, install fails with InvalidUpdaterFormat and      *)
(* leaves the recorded path and handle as they were.                       *)
(***************************************************************************)
C10_ExactWriteVerified ==
  [][ (winReturned' # None /\ winReturned'[1].op = "install") =>
        /\ winReturned'[1].value.ok =>
             /\ winReturned'[1].written = Some(winReturned'[1].bytes_len)
             /\ disk'[UPDATER_FILE'[1]] = winReturned'[1].bytes_len
        /\ ( /\ winReturned'[1].written # None
             /\ winReturned'[1].written # Some(winReturned'[1].bytes_len) )
             => /\ IsErr(winReturned'[1].value, "InvalidUpdaterFormat")
                /\ UNCHANGED <<UPDATER_FILE, TEMP_FILE_KEEPER>> ]_vars

\* a short write of a two-byte buffer was reported as an invalid format
C10_Witness ==
  /\ InstallReturned
  /\ winReturned[1].bytes_len = 2
  /\ winReturned[1].written = Some(1)
  /\ IsErr(winReturned[1].value, "InvalidUpdaterFormat")

(***************************************************************************)
(* The atomic-swap platform (src/macos.rs).                                *)
(*                                                                         *)
(* A directory is known by its content, a positive number; NoDir is the    *)
(* absence of a directory.  A TempDir deletes its directory when dropped,  *)
(* which happens on every exit of the function that created it.  What the  *)
(* file system, the script host and the child processes do is the input    *)
(* env of the call.                                                        *)
(***************************************************************************)
\* a path component: file name split at its last dot
Comp(name, ext) == [name |-> name, ext |-> ext]

\* a ZIP entry: its name as path components, whether the name is absolute,
\* and whether the name ends with '/'
ZipEntry(abs, comps, dir) == [abs |-> abs, comps |-> comps, dir |-> dir]

\* App.app/ ; App.app/Contents/MacOS/app
ArchiveBundle ==
  << ZipEntry(FALSE, <<Comp("App", "app")>>, TRUE),
     ZipEntry(FALSE, <<Comp("App", "app"), Comp("Contents", ""), Comp("MacOS", ""),
                       Comp("app", "")>>, FALSE) >>

\* bin/ ; bin/tool
ArchiveTree ==
  << ZipEntry(FALSE, <<Comp("bin", "")>>, TRUE),
     ZipEntry(FALSE, <<Comp("bin", ""), Comp("tool", "")>>, FALSE) >>

\* App.app/Contents/Helper.app/ ; App.app/
ArchiveNestedFirst ==
  << ZipEntry(FALSE, <<Comp("App", "app"), Comp("Contents", ""),
                       Comp("Helper", "app")>>, TRUE),
     ZipEntry(FALSE, <<Comp("App", "app")>>, TRUE) >>

\* ../evil ; App.app/
ArchiveEscape ==
  << ZipEntry(FALSE, <<Comp("..", ""), Comp("evil", "")>>, FALSE),
     ZipEntry(FALSE, <<Comp("App", "app")>>, TRUE) >>

\* /etc/evil ; bin/
ArchiveAbsolute ==
  << ZipEntry(TRUE, <<Comp("etc", ""), Comp("evil", "")>>, FALSE),
     ZipEntry(FALSE, <<Comp("bin", "")>>, TRUE) >>

\* App.app/Contents/MacOS/app, without an entry for a directory
ArchiveNoDirEntry ==
  << ZipEntry(FALSE, <<Comp("App", "app"), Comp("Contents", ""), Comp("MacOS", ""),
                       Comp("app", "")>>, FALSE) >>

\* bin/../../evil ; bin/../tool ; bin/
ArchiveClimb ==
  << ZipEntry(FALSE, <<Comp("bin", ""), Comp("..", ""), Comp("..", ""),
                       Comp("evil", "")>>, FALSE),
     ZipEntry(FALSE, <<Comp("bin", ""), Comp("..", ""), Comp("tool", "")>>, FALSE),
     ZipEntry(FALSE, <<Comp("bin", "")>>, TRUE) >>

Archives ==
  { ArchiveBundle, ArchiveTree, ArchiveNestedFirst, ArchiveEscape,
    ArchiveAbsolute, ArchiveNoDirEntry, ArchiveClimb }

\* ZipFile::enclosed_name: None for an absolute name and for a name that
\* climbs above its starting directory
RECURSIVE StaysInside(_, _)
StaysInside(comps, depth) ==
  IF comps = <<>> THEN TRUE
  ELSE IF Head(comps).name = ".."
       THEN depth > 0 /\ StaysInside(Tail(comps), depth - 1)
       ELSE StaysInside(Tail(comps), depth + 1)

\* a name taken as it is written in the archive
enclosed_name_unchecked(entry) == Some(entry.comps)

enclosed_name(entry) ==
  IF entry.abs \/ ~StaysInside(entry.comps, 0) THEN None ELSE Some(entry.comps)

\* Path::extension of a path
extension(path) == IF path = <<>> THEN "" ELSE path[Len(path)].ext

\* the loop of extract_zip: the paths, relative to the extraction directory,
\* of the entries that were written, in archive order
RECURSIVE extracted_files(_)
extracted_files(archive) ==
  IF archive = <<>> THEN <<>>
  ELSE LET outpath == enclosed_name(Head(archive))
       IN IF outpath = None THEN extracted_files(Tail(archive))
          ELSE <<outpath[1]>> \o extracted_files(Tail(archive))

\* Iterator::find over extracted_files: the first path whose extension is "app"
RECURSIVE app_bundle(_)
app_bundle(files) ==
  IF files = <<>> THEN None
  ELSE IF extension(Head(files)) = "app" THEN Some(Head(files))
  ELSE app_bundle(Tail(files))

\* a panic of the calling thread
Panic(msg) == [panic |-> msg]

Returns(value) == "panic" \notin DOMAIN value

\* the outcomes of the environment of one install call:
\*   extract      ZipArchive::new and the extraction loop: "ok", "zip_err", "io_err"
\*   tmp          whether the temporary backup directory could be created
\*   rename1      the rename of the install path into it: "ok", "perm", "other"
\*   swap         the rename of the replacement into the install path
\*   restore      the rename of the backup back into the install path
\*   cleanup      the removal of the backup
\*   compile      "ok", or which Script::compile fails: "first", "restore"
\*   script_done  how many commands of the privileged script ran before it
\*                failed; all of them when it succeeded
\*   rscript_done the same for the privileged restore script
\*   touch        whether the touch process could be spawned
DefaultMacEnv ==
  [extract |-> "ok", tmp |-> "ok", rename1 |-> "ok", swap |-> "ok",
   restore |-> "ok", cleanup |-> "ok", compile |-> "ok", script_done |-> 3,
   rscript_done |-> 2, touch |-> "ok"]

\* Each outcome is listed once.
MacEnvs ==
  { [DefaultMacEnv EXCEPT !.extract = x] : x \in {"zip_err", "io_err"} }
  \cup { [DefaultMacEnv EXCEPT !.tmp = "err"] }
  \cup { [DefaultMacEnv EXCEPT !.rename1 = "other"] }
  \cup { [DefaultMacEnv EXCEPT !.swap = "ok", !.cleanup = c, !.touch = t] :
           c \in {"ok", "err"}, t \in {"ok", "err"} }
  \cup { [DefaultMacEnv EXCEPT !.swap = "err", !.restore = r] : r \in {"ok", "err"} }
  \cup { [DefaultMacEnv EXCEPT !.rename1 = "perm", !.compile = "first"] }
  \cup { [DefaultMacEnv EXCEPT !.rename1 = "perm", !.touch = t] : t \in {"ok", "err"} }
  \cup { [DefaultMacEnv EXCEPT !.rename1 = "perm", !.script_done = n,
                               !.compile = "restore"] : n \in 0..2 }
  \cup { [DefaultMacEnv EXCEPT !.rename1 = "perm", !.script_done = n,
                               !.rscript_done = m] : n \in 0..2, m \in 0..2 }

\* PathBuf::with_extension("backup") of extract_path: a sibling of its own
\* when the file name has an extension to replace, otherwise the same path
\* as format!("{}.backup", extract_path)
BackupPath(has_ext) ==
  IF has_ext THEN "backup_replaced_ext" ELSE "backup_appended"

\* drop of the TempDir tauri_current_app
DropTmpBackup(fs) == [fs EXCEPT !["tmp_backup"] = NoDir]

\* The file-system steps a call performed, in order, are kept as a trace of
\* step names: "extract", "backup" (the install path moved aside),
\* "remove" (the install path deleted), "swap", "swap_failed", "restore",
\* "restore_failed" (a restore that was attempted and did not happen),
\* "cleanup" (a backup deleted), "drop_backup" (the temporary backup
\* directory deleted with the TempDir), "touch".
\* The privileged scripts a call executed, in order, are kept by what they
\* do: "backup_swap_cleanup", "restore_if_backup", "remove_swap".

\* do shell script "mv src backup && mv new src && rm -rf backup": the state
\* after the first `done` commands; mv moves src into backup when a directory
\* is already there
ScriptSwap(fs, new, done) ==
  LET s1 == IF done >= 1
            THEN [fs EXCEPT !["install"] = NoDir,
                            !["backup_appended"] =
                               IF fs["backup_appended"] = NoDir THEN fs["install"]
                               ELSE fs["backup_appended"]]
            ELSE fs
      s2 == IF done >= 2 THEN [s1 EXCEPT !["install"] = new] ELSE s1
  IN IF done >= 3 THEN [s2 EXCEPT !["backup_appended"] = NoDir] ELSE s2

ScriptSwapTrace(done) ==
  SubSeq(<<"backup", "swap", "cleanup">>, 1, done)
    \o (IF done = 1 THEN <<"swap_failed">> ELSE <<>>)

\* do shell script "if [ -d backup ]; then rm -rf src && mv backup src; fi"
ScriptRestore(fs, done) ==
  IF fs["backup_appended"] = NoDir THEN fs
  ELSE IF done >= 2
       THEN [fs EXCEPT !["install"] = fs["backup_appended"],
                       !["backup_appended"] = NoDir]
  ELSE IF done = 1 THEN [fs EXCEPT !["install"] = NoDir]
  ELSE fs

ScriptRestoreTrace(fs, done) ==
  IF fs["backup_appended"] = NoDir THEN <<>>
  ELSE SubSeq(<<"remove", "restore">>, 1, done)

\* a script that removes the install path and moves nothing into it
ScriptReplace_removing(fs, new, done) ==
  IF done >= 1 THEN [fs EXCEPT !["install"] = NoDir] ELSE fs

\* do shell script "rm -rf src && mv -f new src"
ScriptReplace(fs, new, done) ==
  LET s1 == IF done >= 1 THEN [fs EXCEPT !["install"] = NoDir] ELSE fs
  IN IF done >= 2 THEN [s1 EXCEPT !["install"] = new] ELSE s1

ScriptReplaceTrace(done) ==
  SubSeq(<<"remove", "swap">>, 1, done)
    \o (IF done = 1 THEN <<"swap_failed">> ELSE <<>>)

\* the first rename of both move functions: the install path into the
\* temporary backup directory; a path with no directory cannot be renamed
FirstRename(fs, env) == IF fs["install"] = NoDir THEN "other" ELSE env.rename1

\* the error of a failed swap replaced by the error of a failed restore
swap_error_masked(restored) ==
  IF restored = "err" THEN Err("Io", "restore") ELSE Err("Io", "swap")

\* the rename of the replacement into the install path failed: what is
\* returned, given how the restore went ("ok", "err", or "none" when it was
\* not attempted); `let _ =` discards the result of the restore
swap_error(restored) == Err("Io", "swap")

\* the first rename failed and the install path is deleted on the way out
backup_rename_failed_removing(fs) ==
  [res |-> Err("Io", "rename"), fs |-> [fs EXCEPT !["install"] = NoDir],
   trace |-> <<"remove">>, scripts |-> <<>>]

\* the first rename failed for another reason than PermissionDenied:
\* return Err(err.into()), which drops the empty temporary directory
backup_rename_failed(fs) ==
  [res |-> Err("Io", "rename"), fs |-> fs, trace |-> <<>>, scripts |-> <<>>]

\* Updater::move_app_bundle; new is the content of the extracted bundle
move_app_bundle(fs, has_ext, new, env) ==
  IF env.tmp = "err" THEN [res |-> Err("Io", "tempdir"), fs |-> fs, trace |-> <<>>,
                          scripts |-> <<>>]
  ELSE IF FirstRename(fs, env) = "other"
       THEN backup_rename_failed(fs)
  ELSE IF FirstRename(fs, env) = "perm"
       THEN \* need_authorization
            IF env.compile = "first"
            THEN [res |-> Panic("invalid AppleScript"), fs |-> fs, trace |-> <<>>,
                  scripts |-> <<>>]
            ELSE LET after == ScriptSwap(fs, new, env.script_done)
                     done == ScriptSwapTrace(env.script_done)
                 IN IF env.script_done >= 3
                    THEN [res |-> Ok(Unit), fs |-> after, trace |-> done,
                          scripts |-> <<"backup_swap_cleanup">>]
                    ELSE IF env.compile = "restore"
                         THEN [res |-> Panic("invalid AppleScript"), fs |-> after,
                               trace |-> done,
                               scripts |-> <<"backup_swap_cleanup">>]
                         ELSE [res |-> Err("Io", "PermissionDenied"),
                               fs |-> ScriptRestore(after, env.rscript_done),
                               trace |-> done \o ScriptRestoreTrace(after, env.rscript_done),
                               scripts |-> <<"backup_swap_cleanup", "restore_if_backup">>]
  ELSE \* the install path is now current_app in the temporary directory
       LET backup_path == BackupPath(has_ext)
           moved == [fs EXCEPT !["tmp_backup"] = fs["install"], !["install"] = NoDir]
           \* Step 1: if self.extract_path.exists()
           step1 == IF moved["install"] # NoDir
                    THEN [moved EXCEPT ![backup_path] = moved["install"],
                                       !["install"] = NoDir]
                    ELSE moved
           t1 == <<"backup">>
       IN IF env.swap = "err"
          THEN \* best effort restore from backup_path, then the TempDir drops
               LET attempt == step1[backup_path] # NoDir
                   restoring == attempt /\ env.restore = "ok"
                   restored == IF restoring
                               THEN [step1 EXCEPT !["install"] = step1[backup_path],
                                                  ![backup_path] = NoDir]
                               ELSE step1
               IN [res |-> swap_error(IF attempt THEN env.restore ELSE "none"),
                   fs |-> DropTmpBackup(restored),
                   trace |-> t1 \o <<"swap_failed">>
                               \o (IF restoring THEN <<"restore">>
                                   ELSE IF attempt THEN <<"restore_failed">>
                                   ELSE <<>>)
                               \o <<"drop_backup">>,
                   scripts |-> <<>>]
          ELSE LET swapped == [step1 EXCEPT !["install"] = new]
                   cleaning == swapped[backup_path] # NoDir /\ env.cleanup = "ok"
                   cleaned == IF cleaning THEN [swapped EXCEPT ![backup_path] = NoDir]
                              ELSE swapped
               IN [res |-> Ok(Unit), fs |-> DropTmpBackup(cleaned),
                   trace |-> t1 \o <<"swap">>
                               \o (IF cleaning THEN <<"cleanup">> ELSE <<>>)
                               \o <<"drop_backup">>,
                   scripts |-> <<>>]

\* Updater::move_extracted_files; new is the content of the extraction directory
move_extracted_files(fs, new, env) ==
  IF env.tmp = "err" THEN [res |-> Err("Io", "tempdir"), fs |-> fs, trace |-> <<>>,
                          scripts |-> <<>>]
  ELSE IF FirstRename(fs, env) = "other"
       THEN backup_rename_failed(fs)
  ELSE IF FirstRename(fs, env) = "perm"
       THEN IF env.compile = "first"
            THEN [res |-> Panic("invalid AppleScript"), fs |-> fs, trace |-> <<>>,
                  scripts |-> <<>>]
            ELSE LET done == IF env.script_done >= 2 THEN 2 ELSE env.script_done
                 IN [res |-> IF done = 2 THEN Ok(Unit)
                             ELSE Err("Io", "PermissionDenied"),
                     fs |-> ScriptReplace(fs, new, done),
                     trace |-> ScriptReplaceTrace(done),
                     scripts |-> <<"remove_swap">>]
  ELSE LET moved == [fs EXCEPT !["tmp_backup"] = fs["install"], !["install"] = NoDir]
           \* if self.extract_path.exists() { remove_dir_all }
           removed == [moved EXCEPT !["install"] = NoDir]
           t1 == <<"backup">> \o (IF moved["install"] # NoDir THEN <<"remove">> ELSE <<>>)
       IN IF env.swap = "err"
          THEN [res |-> swap_error("none"), fs |-> DropTmpBackup(removed),
                trace |-> t1 \o <<"swap_failed", "drop_backup">>,
                scripts |-> <<>>]
          ELSE [res |-> Ok(Unit),
                fs |-> DropTmpBackup([removed EXCEPT !["install"] = new]),
                trace |-> t1 \o <<"swap", "drop_backup">>,
                scripts |-> <<>>]

\* Updater::extract_zip; files are the paths, below the extraction directory,
\* that the loop created; unit is the replacement unit that was moved:
\* Some(path of the bundle) or None for the whole extraction directory
extract_zip(fs, has_ext, new, archive, env) ==
  IF env.extract = "zip_err"
  THEN [res |-> Err("Zip", ""), fs |-> fs, trace |-> <<>>, unit |-> None,
        scripts |-> <<>>, files |-> <<>>]
  ELSE IF env.extract = "io_err"
  THEN [res |-> Err("Io", "extract"), fs |-> fs, trace |-> <<>>, unit |-> None,
        scripts |-> <<>>, files |-> <<>>]
  ELSE LET files == extracted_files(archive)
           app == app_bundle(files)
           m == IF app # None THEN move_app_bundle(fs, has_ext, new, env)
                ELSE move_extracted_files(fs, new, env)
       IN [res |-> m.res, fs |-> m.fs, trace |-> <<"extract">> \o m.trace,
           unit |-> app, scripts |-> m.scripts, files |-> files]

\* Updater::install_inner of the atomic-swap platform
mac_install_inner(fs, has_ext, new, archive, env) ==
  LET x == extract_zip(fs, has_ext, new, archive, env)
  IN IF ~Returns(x.res) \/ ~x.res.ok THEN x
     ELSE IF env.touch = "err" THEN [x EXCEPT !.res = Err("Io", "touch")]
     ELSE [x EXCEPT !.trace = x.trace \o <<"touch">>]

\* relaunch_inner that returns to its caller after the spawn
mac_relaunch_inner_returning(spawned) ==
  IF spawned THEN Ok(Unit) ELSE Err("Io", "spawn")

\* Updater::relaunch_inner of the atomic-swap platform; spawned: whether
\* `open -n extract_path` could be spawned
mac_relaunch_inner(spawned) ==
  IF spawned THEN Exit(0) ELSE Err("Io", "spawn")

(***************************************************************************)
(* The process on the atomic-swap platform: any sequence of install and    *)
(* relaunch calls until the process exits.                                 *)
(***************************************************************************)
InitMac ==
  /\ WinIdle
  /\ FreshUpdater
  /\ target_os = "macos"
  /\ target_arch = "aarch64"
  /\ current_version = [major |-> 0, minor |-> 0, patch |-> 0, pre |-> <<>>]
  /\ release = [tag_name |-> <<"1", ".", "0">>, assets |-> <<>>]
  /\ returned = None
  /\ macfs = [l \in Locations |-> IF l = "install" THEN FirstContent ELSE NoDir]
  /\ path_has_ext \in BOOLEAN
  /\ installs = 0
  /\ macRunning = TRUE
  /\ opened = FALSE
  /\ macReturned = None

\* Updater::install on this platform
MacInstallWith(archive, env) ==
  /\ stage = "built"
  /\ macRunning
  /\ installs < MaxInstalls
  /\ LET r == mac_install_inner(macfs, path_has_ext, installs + 2, archive, env)
     IN /\ macfs' = r.fs
        /\ macRunning' = Returns(r.res)
        /\ macReturned' = Some([op |-> "install", value |-> r.res,
                                before |-> macfs["install"], staged |-> installs + 2,
                                trace |-> r.trace, unit |-> r.unit,
                                scripts |-> r.scripts, archive |-> archive,
                                files |-> r.files,
                                rename1 |-> IF env.extract = "ok" /\ env.tmp = "ok"
                                            THEN FirstRename(macfs, env)
                                            ELSE "none"])
  /\ installs' = installs + 1
  /\ UNCHANGED <<path_has_ext, opened>>
  /\ UNCHANGED <<checkVars, winVars>>

MacInstall == \E archive \in Archives : \E env \in MacEnvs : MacInstallWith(archive, env)

\* Updater::relaunch on this platform
MacRelaunchWith(spawned) ==
  /\ stage = "built"
  /\ macRunning
  /\ LET r == mac_relaunch_inner(spawned)
     IN /\ macRunning' = ("exit_code" \notin DOMAIN r)
        /\ opened' = spawned
        /\ macReturned' = Some([op |-> "relaunch", value |-> r,
                                before |-> macfs["install"], staged |-> NoDir,
                                trace |-> <<>>, unit |-> None, scripts |-> <<>>,
                                archive |-> <<>>, files |-> <<>>,
                                rename1 |-> "none"])
  /\ UNCHANGED <<macfs, path_has_ext, installs>>
  /\ UNCHANGED <<checkVars, winVars>>

MacRelaunch == \E spawned \in BOOLEAN : MacRelaunchWith(spawned)

NextMac == MacInstall \/ MacRelaunch

SpecMac == InitMac /\ [][NextMac]_vars

(***************************************************************************)
(* Vocabulary of the properties of the atomic-swap platform.               *)
(***************************************************************************)
MacInstallReturned == macReturned # None /\ macReturned[1].op = "install"

Did(step) == \E i \in 1..Len(macReturned[1].trace) : macReturned[1].trace[i] = step

(***************************************************************************)
(* C1 as stated: when the unprivileged backup of the current install       *)
(* succeeded and the rename of the replacement into the install path then  *)
(* failed, install returns an error, the install path holds exactly the    *)
(* content it held before the call, and no backup directory remains.       *)
(* Refuted by the code: the current install was moved into the temporary   *)
(* backup directory, the restore looks for it at another path, and the     *)
(* temporary directory is deleted on return, so the install path is left   *)
(* without a directory.                                                    *)
(***************************************************************************)
C1_FailedSwapRestoresInstall ==
  (MacInstallReturned /\ macReturned[1].rename1 = "ok" /\ Did("swap_failed")) =>
    /\ Returns(macReturned[1].value)
    /\ ~macReturned[1].value.ok
    /\ macfs["install"] = macReturned[1].before
    /\ \A l \in Locations \ {"install"} : macfs[l] = NoDir

(***************************************************************************)
(* UpdaterBuilder (src/builder.rs): the installer arguments and build.     *)
(***************************************************************************)
\* the arguments an application may configure
InstallerArgValues == {"/S", "/D"}

\* the argument lists installer_args may be called with
ArgLists == SeqsUpTo(InstallerArgValues, MaxArgs)

\* UpdaterBuilder::installer_arg
installer_arg(args, arg) == Append(args, arg)

\* UpdaterBuilder::installer_args: Vec::extend
extend_installer_args(args, more) == args \o more

\* UpdaterBuilder::clear_installer_args
clear_installer_args(args) == <<>>

\* what can go wrong in build: current_exe, extract_path_from_executable,
\* Version::parse of the current version
BuildEnvs == {"ok", "current_exe", "extract_path", "semver"}

\* build that hands the new Updater a resolved release
build_resolving(args, env) ==
  IF env = "current_exe" THEN Err("Io", "current_exe")
  ELSE IF env = "extract_path" THEN Err("FailedToDetermineExtractPath", "")
  ELSE IF env = "semver" THEN Err("Semver", "")
  ELSE Ok([installer_args |-> args, latest_release |-> Some(release),
           proper_asset |-> None])

\* UpdaterBuilder::build: the installer_args field and the two resolved
\* fields of the new Updater
build(args, env) ==
  IF env = "current_exe" THEN Err("Io", "current_exe")
  ELSE IF env = "extract_path" THEN Err("FailedToDetermineExtractPath", "")
  ELSE IF env = "semver" THEN Err("Semver", "")
  ELSE Ok([installer_args |-> args, latest_release |-> None,
           proper_asset |-> None])

(***************************************************************************)
(* An application on the privileged-installer platform from the builder    *)
(* on: it configures installer arguments, builds the Updater, then calls   *)
(* install and relaunch.                                                   *)
(***************************************************************************)
InitBuilder ==
  /\ WinIdle
  /\ MacIdle
  /\ target_os = "windows"
  /\ target_arch = "x86_64"
  /\ current_version = [major |-> 0, minor |-> 0, patch |-> 0, pre |-> <<>>]
  /\ release = [tag_name |-> <<"1", ".", "0">>, assets |-> <<>>]
  /\ installer_args = <<>>
  /\ resolved = Unresolved
  /\ stage = "builder"
  /\ returned = None
  /\ calls = 0
  /\ netReturned = None

BuilderStep(args) ==
  /\ stage = "builder"
  /\ Len(args) <= MaxArgs
  /\ installer_args' = args
  /\ UNCHANGED <<target_os, target_arch, current_version, release, stage, resolved>>
  /\ UNCHANGED <<returned, calls, netReturned, winVars, macVars>>

InstallerArg ==
  \E arg \in InstallerArgValues : BuilderStep(installer_arg(installer_args, arg))

InstallerArgs ==
  \E more \in ArgLists : BuilderStep(extend_installer_args(installer_args, more))

ClearInstallerArgs == BuilderStep(clear_installer_args(installer_args))

Build ==
  /\ stage = "builder"
  /\ \E env \in BuildEnvs :
       LET r == build(installer_args, env)
       IN /\ stage' = IF r.ok THEN "built" ELSE "failed"
          /\ installer_args' = IF r.ok THEN r.val.installer_args ELSE <<>>
          /\ resolved' = IF r.ok THEN [latest_release |-> r.val.latest_release,
                                       proper_asset |-> r.val.proper_asset]
                         ELSE Unresolved
  /\ UNCHANGED <<target_os, target_arch, current_version, release>>
  /\ UNCHANGED <<returned, calls, netReturned, winVars, macVars>>

NextBuilder ==
  InstallerArg \/ InstallerArgs \/ ClearInstallerArgs \/ Build \/ Install \/ Relaunch

SpecBuilder == InitBuilder /\ [][NextBuilder]_vars

(***************************************************************************)
(* C11 as stated: the installer arguments configured on the builder, after *)
(* any sequence of installer_arg, installer_args and clear_installer_args  *)
(* calls, are exactly the arguments handed to the installer when relaunch  *)
(* launches it.  Refuted by the code: relaunch passes an empty parameter   *)
(* string to ShellExecuteW and never reads Updater.installer_args.         *)
(***************************************************************************)
C11_InstallerArgsHandedOver ==
  (RelaunchExited /\ launched # None) =>
    winReturned[1].parameters = Some(installer_args)

(***************************************************************************)
(* Updater::download (src/builder.rs).                                     *)
(*                                                                         *)
(* A chunk is a sequence of bytes.  The response body is a stream of       *)
(* items, each Ok(chunk) or a transport error.  What the network does is   *)
(* an input of the call.                                                   *)
(***************************************************************************)
Bytes == {0, 1}

Chunks == SeqsUpTo(Bytes, MaxChunkLen)

StreamItems == { Ok(c) : c \in Chunks } \cup { Err("Reqwest", "stream") }

Streams == SeqsUpTo(StreamItems, MaxChunks)

\* the HTTP statuses a response is made to carry
Statuses == {200, 206, 302, 404, 500}

\* StatusCode::is_success
is_success(status) == 200 <= status /\ status <= 299

\* the outcomes of the network for one download call:
\*   proxy    Updater.proxy: "none", or a URL that reqwest::Proxy::all
\*            accepts ("valid") or rejects ("invalid")
\*   client   whether ClientBuilder::build succeeded
\*   send     whether a response arrived
\*   status   the status of the response
\*   stream   the items of the body stream
DefaultDownloadEnv ==
  [proxy |-> "none", client |-> "ok", send |-> "ok", status |-> 200,
   stream |-> <<>>]

\* Each outcome is listed once; the body of a rejected response is not read,
\* it is empty or one chunk.
DownloadEnvs ==
  { [DefaultDownloadEnv EXCEPT !.proxy = p] : p \in {"valid", "invalid"} }
  \cup { [DefaultDownloadEnv EXCEPT !.client = "err"] }
  \cup { [DefaultDownloadEnv EXCEPT !.send = "err"] }
  \cup { [DefaultDownloadEnv EXCEPT !.status = s, !.stream = b] :
           s \in { t \in Statuses : ~is_success(t) },
           b \in {<<>>, <<Ok(<<0>>)>>} }
  \cup { [DefaultDownloadEnv EXCEPT !.status = s, !.stream = b] :
           s \in { t \in Statuses : is_success(t) }, b \in Streams }

\* the loop of download that appends each chunk to the front of the buffer
RECURSIVE stream_loop_prepending(_, _, _)
stream_loop_prepending(stream, called, buffer) ==
  IF stream = <<>> THEN [res |-> Ok(buffer), on_chunk |-> called]
  ELSE IF ~Head(stream).ok THEN [res |-> Head(stream), on_chunk |-> called]
  ELSE stream_loop_prepending(Tail(stream), Append(called, Len(Head(stream).val)),
                              Head(stream).val \o buffer)

\* while let Some(chunk) = stream.next().await { chunk?; on_chunk; extend }:
\* called is the sequence of arguments on_chunk was called with so far
RECURSIVE stream_loop(_, _, _)
stream_loop(stream, called, buffer) ==
  IF stream = <<>> THEN [res |-> Ok(buffer), on_chunk |-> called]
  ELSE IF ~Head(stream).ok THEN [res |-> Head(stream), on_chunk |-> called]
  ELSE stream_loop(Tail(stream), Append(called, Len(Head(stream).val)),
                   buffer \o Head(stream).val)

\* download that reads the body whatever the status
download_ignoring_status(asset, env) ==
  IF env.proxy = "invalid"
  THEN [res |-> Err("Reqwest", "proxy"), on_chunk |-> <<>>, status |-> None,
        sent |-> FALSE]
  ELSE IF asset = None
  THEN [res |-> Err("AssetNotFound", ""), on_chunk |-> <<>>, status |-> None,
        sent |-> FALSE]
  ELSE IF env.client = "err"
  THEN [res |-> Err("Reqwest", "build"), on_chunk |-> <<>>, status |-> None,
        sent |-> FALSE]
  ELSE IF env.send = "err"
  THEN [res |-> Err("Reqwest", "send"), on_chunk |-> <<>>, status |-> None,
        sent |-> TRUE]
  ELSE LET body == stream_loop(env.stream, <<>>, <<>>)
       IN [res |-> body.res, on_chunk |-> body.on_chunk, status |-> Some(env.status),
           sent |-> TRUE]

\* download that looks for the resolved asset once the response is there
download_asset_last(asset, env) ==
  IF env.proxy = "invalid"
  THEN [res |-> Err("Reqwest", "proxy"), on_chunk |-> <<>>, status |-> None,
        sent |-> FALSE]
  ELSE IF env.client = "err"
  THEN [res |-> Err("Reqwest", "build"), on_chunk |-> <<>>, status |-> None,
        sent |-> FALSE]
  ELSE IF env.send = "err"
  THEN [res |-> Err("Reqwest", "send"), on_chunk |-> <<>>, status |-> None,
        sent |-> TRUE]
  ELSE IF asset = None
  THEN [res |-> Err("AssetNotFound", ""), on_chunk |-> <<>>,
        status |-> Some(env.status), sent |-> TRUE]
  ELSE IF ~is_success(env.status)
  THEN [res |-> ErrCode("Network", env.status), on_chunk |-> <<>>,
        status |-> Some(env.status), sent |-> TRUE]
  ELSE LET body == stream_loop(env.stream, <<>>, <<>>)
       IN [res |-> body.res, on_chunk |-> body.on_chunk, status |-> Some(env.status),
           sent |-> TRUE]

\* Updater::download; asset is the proper_asset field of the Updater, status
\* is Some(status of the response) once a response arrived, sent is whether
\* the request was handed to send()
download(asset, env) ==
  IF env.proxy = "invalid"
  THEN [res |-> Err("Reqwest", "proxy"), on_chunk |-> <<>>, status |-> None,
        sent |-> FALSE]
  ELSE IF asset = None
  THEN [res |-> Err("AssetNotFound", ""), on_chunk |-> <<>>, status |-> None,
        sent |-> FALSE]
  ELSE IF env.client = "err"
  THEN [res |-> Err("Reqwest", "build"), on_chunk |-> <<>>, status |-> None,
        sent |-> FALSE]
  ELSE IF env.send = "err"
  THEN [res |-> Err("Reqwest", "send"), on_chunk |-> <<>>, status |-> None,
        sent |-> TRUE]
  ELSE IF ~is_success(env.status)
  THEN [res |-> ErrCode("Network", env.status), on_chunk |-> <<>>,
        status |-> Some(env.status), sent |-> TRUE]
  ELSE LET body == stream_loop(env.stream, <<>>, <<>>)
       IN [res |-> body.res, on_chunk |-> body.on_chunk, status |-> Some(env.status),
           sent |-> TRUE]

(***************************************************************************)
(* An application that calls download on an Updater, with or without a     *)
(* resolved asset.                                                         *)
(***************************************************************************)
\* the resolved asset of an Updater that check returned
ResolvedAsset ==
  [name |-> to_lowercase(NameWindowsX64Exe), os |-> "Windows", arch |-> "X86_64",
   bundle_type |-> "WindowsSetUp"]

InitDownload ==
  /\ WinIdle
  /\ MacIdle
  /\ FreshUpdater
  /\ target_os = "windows"
  /\ target_arch = "x86_64"
  /\ current_version = [major |-> 0, minor |-> 0, patch |-> 0, pre |-> <<>>]
  /\ release = [tag_name |-> <<"1", ".", "0">>, assets |-> <<>>]
  /\ returned = None

DownloadWith(asset, env) ==
  /\ stage = "built"
  /\ calls < MaxCalls
  /\ LET r == download(asset, env)
     IN netReturned' = Some([op |-> "download", value |-> r.res,
                             on_chunk |-> r.on_chunk, status |-> r.status,
                             stream |-> env.stream, sent |-> r.sent,
                             asset |-> asset, proxy |-> env.proxy])
  /\ calls' = calls + 1
  /\ UNCHANGED <<updaterVars, returned, winVars, macVars>>

Download ==
  \E asset \in {None, Some(ResolvedAsset)} : \E env \in DownloadEnvs :
    DownloadWith(asset, env)

NextDownload == Download

SpecDownload == InitDownload /\ [][NextDownload]_vars

(***************************************************************************)
(* Vocabulary of the properties of download.                               *)
(***************************************************************************)
DownloadReturned == netReturned # None /\ netReturned[1].op = "download"

\* the chunks of a stream one after the other
RECURSIVE Concatenation(_)
Concatenation(stream) ==
  IF stream = <<>> THEN <<>> ELSE Head(stream).val \o Concatenation(Tail(stream))

RECURSIVE SumOf(_)
SumOf(lengths) ==
  IF lengths = <<>> THEN 0 ELSE Head(lengths) + SumOf(Tail(lengths))

(***************************************************************************)
(* C12: for every successful download, on_chunk is called exactly once per *)
(* received chunk, in arrival order, with that chunk's byte length, and    *)
(* the returned buffer is the concatenation of the chunks in that order;   *)
(* the reported lengths add up to the length of the returned buffer.       *)
(***************************************************************************)
C12_ChunksReportedInOrder ==
  (DownloadReturned /\ netReturned[1].value.ok) =>
    LET r == netReturned[1]
    IN /\ Len(r.on_chunk) = Len(r.stream)
       /\ \A i \in 1..Len(r.stream) :
            r.stream[i].ok /\ r.on_chunk[i] = Len(r.stream[i].val)
       /\ r.value.val = Concatenation(r.stream)
       /\ SumOf(r.on_chunk) = Len(r.value.val)

\* two chunks of different lengths and contents arrived and were returned
C12_Witness ==
  /\ DownloadReturned
  /\ netReturned[1].value.ok
  /\ netReturned[1].stream = <<Ok(<<0, 1>>), Ok(<<1>>)>>
  /\ netReturned[1].on_chunk = <<2, 1>>
  /\ netReturned[1].value.val = <<0, 1, 1>>

(***************************************************************************)
(* C13: when the response to the download request has a non-success HTTP   *)
(* status, download returns a Network error carrying that status, never    *)
(* calls on_chunk, and returns no bytes.                                   *)
(***************************************************************************)
C13_RejectedStatus ==
  (/\ DownloadReturned
   /\ netReturned[1].status # None
   /\ ~(200 <= netReturned[1].status[1] /\ netReturned[1].status[1] <= 299)) =>
    /\ netReturned[1].value = ErrCode("Network", netReturned[1].status[1])
    /\ netReturned[1].on_chunk = <<>>

\* a 404 response with a body was rejected
C13_Witness ==
  /\ DownloadReturned
  /\ netReturned[1].status = Some(404)
  /\ netReturned[1].stream # <<>>
  /\ IsErr(netReturned[1].value, "Network")

(***************************************************************************)
(* Updater::install, Updater::download_and_install, Updater::update        *)
(* (src/builder.rs).  install is install_inner of the platform the build   *)
(* targets; it works on the state of that platform.                        *)
(***************************************************************************)
\* what one install call is given besides the bytes: the environment of the
\* privileged-installer platform (w), or what the bytes hold as an archive
\* and the environment of the atomic-swap platform (m)
NoInstallInput ==
  [w |-> [mk |-> "temp", create |-> "ok", write |-> "ok", written |-> 0,
          kept |-> TRUE],
   archive |-> ArchiveBundle, m |-> DefaultMacEnv]

InstallInputs(bytes_len) ==
  IF target_os = "windows"
  THEN { [NoInstallInput EXCEPT !.w = e] : e \in InstallEnvs(bytes_len) }
  ELSE { [NoInstallInput EXCEPT !.archive = a, !.m = e] :
           a \in {ArchiveBundle, ArchiveTree}, e \in MacEnvs }

\* the platform state after an install_inner of the privileged-installer
\* platform returned r
WinInstalled(r) ==
  [res |-> r.res, UPDATER_FILE |-> r.UPDATER_FILE,
   TEMP_FILE_KEEPER |-> r.TEMP_FILE_KEEPER, disk |-> r.disk,
   temp_dirs |-> r.temp_dirs, macfs |-> macfs, installs |-> installs]

\* the platform state after an install_inner of the atomic-swap platform
\* returned r
MacInstalled(r) ==
  [res |-> r.res, UPDATER_FILE |-> UPDATER_FILE,
   TEMP_FILE_KEEPER |-> TEMP_FILE_KEEPER, disk |-> disk,
   temp_dirs |-> temp_dirs, macfs |-> r.fs, installs |-> installs + 1]

\* Updater::install: the result and the state of the platform after it
install(bytes_len, inp) ==
  IF target_os = "windows"
  THEN WinInstalled(install_inner(UPDATER_FILE, TEMP_FILE_KEEPER, disk, temp_dirs,
                                  bytes_len, inp.w))
  ELSE MacInstalled(mac_install_inner(macfs, path_has_ext, installs + 2,
                                      inp.archive, inp.m))

\* the platform state as it is, for a call that does not reach install
NotInstalled ==
  [UPDATER_FILE |-> UPDATER_FILE, TEMP_FILE_KEEPER |-> TEMP_FILE_KEEPER,
   disk |-> disk, temp_dirs |-> temp_dirs, macfs |-> macfs, installs |-> installs]

\* what a sub-operation returned, without the payload of a success:
\* Ok(found a newer release) for check, Ok(length of the buffer) for download
CheckOutcome(c) == IF c.ok THEN Ok(c.val # None) ELSE c

DownloadOutcome(r) == IF r.ok THEN Ok(Len(r.val)) ELSE r

\* download_and_install once install returned i for the download dl;
\* started lists the operations started, after is the platform state left
InstallReturns(dl, i) ==
  [res |-> i.res, started |-> <<"download", "install">>,
   download |-> Some(DownloadOutcome(dl.res)), install |-> Some(i.res),
   after |-> [f \in DOMAIN NotInstalled |-> i[f]]]

\* download_and_install once download returned dl: `?`, then install
DownloadReturns(dl, inp) ==
  IF ~dl.res.ok
  THEN [res |-> dl.res, started |-> <<"download">>,
        download |-> Some(DownloadOutcome(dl.res)), install |-> None,
        after |-> NotInstalled]
  ELSE InstallReturns(dl, install(Len(dl.res.val), inp))

\* Updater::download_and_install
download_and_install(asset, denv, inp) ==
  DownloadReturns(download(asset, denv), inp)

\* update once download_and_install returned di for the Updater of check c
ComposedReturns(c, di) ==
  [res |-> IF Returns(di.res) /\ di.res.ok THEN Ok(TRUE) ELSE di.res,
   started |-> <<"check">> \o di.started,
   check |-> Some(CheckOutcome(c)),
   download |-> di.download, install |-> di.install,
   after |-> di.after]

\* update once check returned c: `?`, then if let Some(updater)
CheckReturns(c, denv, inp) ==
  IF ~c.ok \/ c.val = None
  THEN [res |-> IF c.ok THEN Ok(FALSE) ELSE c, started |-> <<"check">>,
        check |-> Some(CheckOutcome(c)), download |-> None, install |-> None,
        after |-> NotInstalled]
  ELSE ComposedReturns(c, download_and_install(c.val[1].proper_asset, denv, inp))

\* Updater::update
update(fetched, denv, inp) == CheckReturns(check(fetched), denv, inp)

(***************************************************************************)
(* An application that calls update and download_and_install, on either    *)
(* platform, for a release that is newer or not, with or without an asset  *)
(* for the platform.                                                       *)
(***************************************************************************)
\* the releases served: "v1.0.0" and "0.0.0", each with assets for both
\* platforms, with an asset for another architecture, with an asset that
\* cannot be classified
UpdateReleases ==
  [tag_name : { <<"v", "1", ".", "0", ".", "0">>, <<"0", ".", "0", ".", "0">> },
   assets : { <<NameDarwinX64ZipUpper, NameWindowsX64Exe>>, <<NameMacosArmDmg>>,
              <<NameLinuxTarGz>> }]

\* the network outcomes of a download inside a composition: the body is at
\* most one item
ShortDownloadEnvs == { e \in DownloadEnvs : Len(e.stream) <= 1 }

InitUpdate ==
  /\ WinIdle
  /\ MacIdle
  /\ FreshUpdater
  /\ target_os \in TargetOs
  /\ target_arch = "x86_64"
  /\ current_version = [major |-> 0, minor |-> 0, patch |-> 0, pre |-> <<>>]
  /\ release \in UpdateReleases
  /\ returned = None

\* a composition returned r: the platform state it leaves and the record of
\* the call
Composed(op, r) ==
  /\ UPDATER_FILE' = r.after.UPDATER_FILE
  /\ TEMP_FILE_KEEPER' = r.after.TEMP_FILE_KEEPER
  /\ disk' = r.after.disk
  /\ temp_dirs' = r.after.temp_dirs
  /\ macfs' = r.after.macfs
  /\ installs' = r.after.installs
  /\ macRunning' = Returns(r.res)
  /\ netReturned' = Some([op |-> op, value |-> r.res, started |-> r.started,
                          check |-> r.check, download |-> r.download,
                          install |-> r.install])
  /\ calls' = calls + 1
  /\ UNCHANGED <<updaterVars, returned>>
  /\ UNCHANGED <<running, launched, relaunch_called, winReturned, threads>>
  /\ UNCHANGED <<path_has_ext, opened, macReturned>>

\* the process can make a call, and install has room in the bounded state
CanCompose ==
  /\ stage = "built"
  /\ running /\ macRunning
  /\ calls < MaxCalls
  /\ temp_dirs < MaxTempDirs
  /\ installs < MaxInstalls

\* the install inputs of a composition whose download returned dl
InstallInputsAfter(dl) ==
  IF dl.res.ok THEN InstallInputs(Len(dl.res.val)) ELSE {NoInstallInput}

\* the inputs update gets to use once check returned c: none past check
\* unless check returned an Updater
DownloadInputsOf(c) ==
  IF c.ok /\ c.val # None THEN ShortDownloadEnvs ELSE {DefaultDownloadEnv}

InstallInputsOf(c, denv) ==
  IF c.ok /\ c.val # None
  THEN InstallInputsAfter(download(c.val[1].proper_asset, denv))
  ELSE {NoInstallInput}

Update ==
  /\ CanCompose
  /\ \E fetched \in BOOLEAN :
       \E denv \in DownloadInputsOf(check(fetched)) :
         \E inp \in InstallInputsOf(check(fetched), denv) :
           \E r \in {update(fetched, denv, inp)} : Composed("update", r)

DownloadAndInstall ==
  /\ CanCompose
  /\ \E asset \in {None, Some(ResolvedAsset)} : \E denv \in ShortDownloadEnvs :
       \E inp \in InstallInputsAfter(download(asset, denv)) :
         \E r \in {download_and_install(asset, denv, inp)} :
           Composed("download_and_install",
                    [res |-> r.res, started |-> r.started, check |-> None,
                     download |-> r.download, install |-> r.install,
                     after |-> r.after])

NextUpdate == Update \/ DownloadAndInstall

SpecUpdate == InitUpdate /\ [][NextUpdate]_vars

(***************************************************************************)
(* Vocabulary of the properties of update.                                 *)
(***************************************************************************)
UpdateReturned == netReturned # None /\ netReturned[1].op = "update"

\* the served release converts and its version is above the current one
ReleaseIsNewer ==
  /\ try_from(release).ok
  /\ Precedes(current_version, try_from(release).val.version)

(***************************************************************************)
(* The composition of C14, with a panic of install passing through update: *)
(* update returns true only after check found a newer release and          *)
(* both download and install succeeded; it returns false only when check   *)
(* found no update, and then no download or install is started; every      *)
(* error returned by check, download or install is returned by update as   *)
(* that error; install is never started when download failed.  A call that *)
(* starts no install leaves the platform state as it was.                  *)
(***************************************************************************)
C14_UpdateComposes ==
  [][ (netReturned' # None /\ netReturned'[1].op = "update" /\ calls' # calls) =>
        LET r == netReturned'[1]
        IN /\ r.value = Ok(TRUE) =>
                /\ ReleaseIsNewer
                /\ r.check = Some(Ok(TRUE))
                /\ r.download # None /\ r.download[1].ok
                /\ r.install = Some(Ok(Unit))
                /\ r.started = <<"check", "download", "install">>
           /\ r.value = Ok(FALSE) =>
                /\ ~ReleaseIsNewer
                /\ r.check = Some(Ok(FALSE))
                /\ r.started = <<"check">>
                /\ r.download = None /\ r.install = None
                /\ UNCHANGED <<winVars, macVars>>
           /\ ~r.check[1].ok => r.value = r.check[1] /\ r.started = <<"check">>
           /\ (r.download # None /\ ~r.download[1].ok) =>
                /\ r.value = r.download[1]
                /\ r.install = None
                /\ r.started = <<"check", "download">>
                /\ UNCHANGED <<winVars, macVars>>
           /\ (r.install # None /\ r.install[1] # Ok(Unit)) => r.value = r.install[1]
           /\ r.value \in {Ok(TRUE), Ok(FALSE)} \/ ~Returns(r.value) \/ ~r.value.ok
    ]_vars

\* update returned true on the atomic-swap platform and the install path
\* holds the replacement
C14_Witness ==
  /\ UpdateReturned
  /\ netReturned[1].value = Ok(TRUE)
  /\ target_os = "macos"
  /\ macfs["install"] = FirstContent + 1

\* update returned the error of a failed download
C14_WitnessDownloadFailed ==
  /\ UpdateReturned
  /\ netReturned[1].download # None
  /\ IsErr(netReturned[1].download[1], "Network")
  /\ netReturned[1].value = netReturned[1].download[1]

C15_WitnessExit ==
  /\ RelaunchExited
  /\ winReturned[1].code = Some(33)
  /\ winReturned[1].value = Exit(0)
  /\ ~running

(***************************************************************************)
(* More vocabulary of the atomic-swap platform.                            *)
(***************************************************************************)
MacRelaunchReturned == macReturned # None /\ macReturned[1].op = "relaunch"

\* install asked for elevation and the privileged script failed before any
\* of its commands ran: this is how a declined prompt reaches install
ElevationDeclined ==
  /\ MacInstallReturned
  /\ macReturned[1].rename1 = "perm"
  /\ Returns(macReturned[1].value)
  /\ macReturned[1].trace = <<"extract">>

(***************************************************************************)
(* C16 as stated: on the atomic-swap platform relaunch does not force the  *)
(* caller to terminate: after a successful spawn relaunch returns success  *)
(* to the caller with the calling process still running.  (relaunch_inner  *)
(* has one outcome for a successful spawn, so "can return" is "returns".)  *)
(* Refuted by the code: std::process::exit(0) follows the spawn.           *)
(***************************************************************************)
C16_SpawnedRelaunchReturns ==
  (MacRelaunchReturned /\ opened) =>
    macRunning /\ macReturned[1].value = Ok(Unit)

(***************************************************************************)
(* C16 amended: on the atomic-swap platform relaunch starts the installed  *)
(* application as an independent process and then always terminates the    *)
(* calling process with exit code 0; it returns to the caller only when    *)
(* the spawn failed, with the I/O error and the process still running.     *)
(***************************************************************************)
C16_SpawnedRelaunchExits ==
  MacRelaunchReturned =>
    IF opened
    THEN macReturned[1].value = Exit(0) /\ ~macRunning
    ELSE macReturned[1].value = Err("Io", "spawn") /\ macRunning

\* the application was started and the calling process is gone
C16_Witness ==
  /\ MacRelaunchReturned
  /\ opened
  /\ ~macRunning
  /\ macReturned[1].value = Exit(0)

(***************************************************************************)
(* C17 as stated: when the user declines the elevation prompt, the         *)
(* operation fails with the distinct user-cancelled-elevation error, never *)
(* with a generic permission, I/O, insufficient-privileges or              *)
(* execution-failure error.  Refuted by the code on the atomic-swap        *)
(* platform: a failed privileged script is reported as an I/O error of     *)
(* kind PermissionDenied.                                                  *)
(***************************************************************************)
C17_DeclineIsUserCancelled ==
  ElevationDeclined => IsErr(macReturned[1].value, "UserCancelledElevation")

(***************************************************************************)
(* C19 as stated: every public operation reports every failure by          *)
(* returning a typed error value; no outcome of the filesystem or of the   *)
(* elevation script (including a script that fails to compile) makes an    *)
(* operation panic instead of returning.  Refuted by the code: install     *)
(* panics when Script::compile fails.                                      *)
(***************************************************************************)
C19_EveryFailureReturned ==
  /\ macRunning => (macReturned # None => Returns(macReturned[1].value))
  /\ ~macRunning => (MacRelaunchReturned /\ macReturned[1].value = Exit(0))

(***************************************************************************)
(* More vocabulary of the properties of check and asset resolution.        *)
(***************************************************************************)
\* check or proper_asset returned and the release source had answered
Fetched == returned # None /\ ~IsErr(returned[1].value, "GitHub")

\* the tag is a semantic version after n leading "v" characters
IsVersionAfter(tag, n) ==
  \E v \in Versions : tag = LeadingV(n) \o VersionString(v)

\* the version a tag of that form names
VersionAfter(tag, n) ==
  CHOOSE v \in Versions : tag = LeadingV(n) \o VersionString(v)

\* the names that lack an OS token, an architecture token or a bundle-kind
\* suffix: "…-linux-x86_64.tar.gz", "…-osx-riscv.app.zip", "…-win-arm64.zip"
Unclassifiable == {NameLinuxTarGz, NameOsxRiscvZip, NameWinArmPlainZip}

HasUnclassifiable ==
  \E i \in 1..Len(release.assets) : release.assets[i] \in Unclassifiable

(***************************************************************************)
(* C18 as stated: the release version is the tag with at most one leading  *)
(* "v" removed, parsed as a semantic version: the tags "v"+s and s give    *)
(* the identical version s, and a tag that is not of this form (for        *)
(* example one with two leading "v") is rejected with a metadata-parse     *)
(* error.  Refuted by the code: every leading "v" is removed, so "vv"+s    *)
(* is accepted as s.                                                       *)
(***************************************************************************)
C18_AtMostOneLeadingV ==
  Fetched =>
    LET tag == release.tag_name
        value == returned[1].value
        well_formed == IsVersionAfter(tag, 0) \/ IsVersionAfter(tag, 1)
    IN /\ well_formed => ~IsErr(value, "Semver")
       /\ (CheckReturned /\ IsUpdater(value)) =>
            /\ well_formed
            /\ \A n \in {0, 1} : IsVersionAfter(tag, n) =>
                 value.val[1].latest_release[1].version = VersionAfter(tag, n)
       /\ ~well_formed => IsErr(value, "Semver")

(***************************************************************************)
(* C18 amended: the release version is the tag with every leading "v"      *)
(* removed, parsed as a semantic version: for every semantic version s the *)
(* tags s, "v"+s and "vv"+s give the identical version s; a tag whose      *)
(* remainder after its leading "v"s is not a semantic version is rejected  *)
(* with a metadata-parse error.                                            *)
(***************************************************************************)
C18_EveryLeadingVRemoved ==
  Fetched =>
    LET tag == release.tag_name
        value == returned[1].value
        parses == \E n \in 0..MaxLeadingV : IsVersionAfter(tag, n)
    IN /\ parses => ~IsErr(value, "Semver")
       /\ (CheckReturned /\ IsUpdater(value)) =>
            /\ parses
            /\ \A n \in 0..MaxLeadingV : IsVersionAfter(tag, n) =>
                 value.val[1].latest_release[1].version = VersionAfter(tag, n)
       /\ ~parses => IsErr(value, "Semver")

\* check returned an Updater for the tag "vv1.0.0", with the version 1.0.0
C18_Witness ==
  /\ CheckReturned
  /\ release.tag_name = <<"v", "v", "1", ".", "0", ".", "0">>
  /\ IsUpdater(returned[1].value)
  /\ returned[1].value.val[1].latest_release[1].version =
       [major |-> 1, minor |-> 0, patch |-> 0, pre |-> <<>>]

(***************************************************************************)
(* C20 as stated: converting a release fails with TargetNotFound whenever  *)
(* at least one of its assets has a name that matches no OS token, no      *)
(* architecture token or no bundle-kind suffix, even when another asset    *)
(* matches the running platform; check and asset resolution then return    *)
(* that error.  Refuted by the code for a release whose tag does not       *)
(* parse: the version is parsed first and its error is the one returned.   *)
(***************************************************************************)
C20_BadAssetIsTargetNotFound ==
  (Fetched /\ HasUnclassifiable) => IsErr(returned[1].value, "TargetNotFound")

(***************************************************************************)
(* C20 amended: converting a release whose tag parses as a version fails   *)
(* with TargetNotFound whenever at least one of its assets has a name that *)
(* matches no OS token, no architecture token or no bundle-kind suffix,    *)
(* even when another asset matches the running platform and whatever the   *)
(* current version; check and asset resolution then return that error.  A  *)
(* release whose tag does not parse fails with the metadata-parse error.   *)
(***************************************************************************)
C20_BadAssetFailsConversion ==
  (Fetched /\ HasUnclassifiable) =>
    LET parses == \E n \in 0..MaxLeadingV : IsVersionAfter(release.tag_name, n)
    IN IF parses THEN IsErr(returned[1].value, "TargetNotFound")
       ELSE IsErr(returned[1].value, "Semver")

\* check of a release that is not newer, with an asset for the platform and
\* an unclassifiable one after it, returned TargetNotFound
C20_Witness ==
  /\ CheckReturned
  /\ target_os = "windows" /\ target_arch = "x86_64"
  /\ release.tag_name = <<"v", "0", ".", "0", ".", "0">>
  /\ release.assets = <<NameWindowsX64Exe, NameLinuxTarGz>>
  /\ IsErr(returned[1].value, "TargetNotFound")

(***************************************************************************)
(* C14, the clause on failures: every failure of check, download or        *)
(* install is returned by update as an error, so that update always        *)
(* returns true, false or an Error; and what C14 says of true, of false    *)
(* and of a failed download holds with it.                                 *)
(***************************************************************************)
C14_EveryFailureReturned ==
  [][ (netReturned' # None /\ netReturned'[1].op = "update" /\ calls' # calls) =>
        LET r == netReturned'[1]
        IN /\ Returns(r.value)
           /\ r.value.ok => r.value \in {Ok(TRUE), Ok(FALSE)}
           /\ r.value = Ok(TRUE) =>
                /\ r.download # None /\ r.download[1].ok
                /\ r.install = Some(Ok(Unit))
           /\ r.value = Ok(FALSE) => r.download = None /\ r.install = None
           /\ (r.download # None /\ ~r.download[1].ok) => r.install = None
    ]_vars

(***************************************************************************)
(* C21 as stated: for either replacement unit, when the unprivileged       *)
(* backup rename fails with permission denied, a privileged script that    *)
(* does backup, swap and backup cleanup is run; when that script fails, a  *)
(* second privileged script that restores from the backup is attempted     *)
(* exactly once, and install returns PermissionDenied.  Refuted by the     *)
(* code: for the whole extracted tree the privileged script removes the    *)
(* install path without a backup, and no restore script follows it.        *)
(***************************************************************************)
C21_PrivilegedSwapThenRestore ==
  (MacInstallReturned /\ macReturned[1].rename1 = "perm") =>
    LET r == macReturned[1]
        failed == ~Returns(r.value) \/ ~r.value.ok
    IN /\ r.scripts # <<>>
       /\ r.scripts[1] = "backup_swap_cleanup"
       /\ ~failed => r.scripts = <<"backup_swap_cleanup">>
       /\ failed =>
            /\ r.scripts = <<"backup_swap_cleanup", "restore_if_backup">>
            /\ r.value = Err("Io", "PermissionDenied")


(***************************************************************************)
(* C22: when the unprivileged backup rename of the current install fails   *)
(* for a reason other than permission denial, install returns that         *)
(* filesystem error at once: no privileged script is run, no step of the   *)
(* swap is made after the extraction, and every location of the file       *)
(* system, the install path among them, is left as it was.                 *)
(***************************************************************************)
C22_OtherRenameErrorIsFatal ==
  [][ (installs' = installs + 1 /\ macReturned'[1].rename1 = "other") =>
        /\ macReturned'[1].value = Err("Io", "rename")
        /\ macReturned'[1].scripts = <<>>
        /\ macReturned'[1].trace = <<"extract">>
        /\ macfs' = macfs
    ]_vars

\* an install whose backup rename failed for another reason than permission
\* denial on an install path that holds the current install
C22_Witness ==
  /\ MacInstallReturned
  /\ macReturned[1].rename1 = "other"
  /\ macReturned[1].before = FirstContent
  /\ macfs["install"] = FirstContent


(***************************************************************************)
(* C23: when the rename of the replacement into the install path fails,    *)
(* install returns exactly the error of that rename, whether the restore   *)
(* from backup then succeeded, failed or was not attempted; an error of    *)
(* the restore is never the value returned.                                *)
(***************************************************************************)
C23_SwapErrorReturned ==
  (MacInstallReturned /\ macReturned[1].rename1 = "ok" /\ Did("swap_failed")) =>
    macReturned[1].value = Err("Io", "swap")

\* the swap failed and so did the restore that was attempted after it
C23_Witness ==
  /\ MacInstallReturned
  /\ macReturned[1].rename1 = "ok"
  /\ Did("swap_failed")
  /\ Did("restore_failed")

\* the swap failed and the restore put the backup back
C23_WitnessRestored ==
  /\ MacInstallReturned
  /\ macReturned[1].rename1 = "ok"
  /\ Did("swap_failed")
  /\ Did("restore")

(***************************************************************************)
(* C24 as stated: in every install the steps occur only in the order       *)
(* extract, backup of the current install, swap, cleanup of the backup,    *)
(* touch: the install path is never removed or overwritten before a backup *)
(* of it was made, a backup is removed only after the swap succeeded, a    *)
(* restore happens only after a failed swap, and the touch only after a    *)
(* successful swap.  Refuted by the code: the privileged script for the    *)
(* whole extracted tree removes the install path without any backup, and   *)
(* the unprivileged backup is deleted with its temporary directory after   *)
(* a failed swap.                                                          *)
(***************************************************************************)
C24_StepsInOrder ==
  MacInstallReturned =>
    LET t == macReturned[1].trace
        Before(i, step) == \E j \in 1..(i - 1) : t[j] = step
        Rank(step) == CASE step = "extract" -> 1
                        [] step = "backup" -> 2
                        [] step = "swap" -> 3
                        [] step = "cleanup" -> 4
                        [] step = "touch" -> 5
                        [] OTHER -> 0
    IN /\ \A i \in 1..Len(t) :
            /\ t[i] \in {"remove", "swap", "swap_failed"} => Before(i, "backup")
            /\ t[i] \in {"cleanup", "drop_backup"} => Before(i, "swap")
            /\ t[i] \in {"restore", "restore_failed"} => Before(i, "swap_failed")
            /\ t[i] = "touch" => Before(i, "swap")
            /\ t[i] # "extract" => Before(i, "extract")
       /\ \A i, j \in 1..Len(t) :
            (i < j /\ Rank(t[i]) > 0 /\ Rank(t[j]) > 0) => Rank(t[i]) < Rank(t[j])


\* the top-level directories of the extracted tree with the bundle extension
TopLevelBundles(archive) ==
  LET files == extracted_files(archive)
  IN { files[i][1] : i \in { j \in 1..Len(files) : files[j][1].ext = "app" } }

(***************************************************************************)
(* C25 as stated: the replacement unit is the top-level directory carrying *)
(* the bundle extension whenever the extracted archive contains one; a     *)
(* nested entry with that extension is never chosen instead of it, and the *)
(* whole extracted tree is the unit only when the archive contains no      *)
(* top-level bundle directory.  Refuted by the code: the unit is the first *)
(* extracted path, in archive order, whose extension is "app", at any      *)
(* depth, and a bundle directory that has no entry of its own is not seen. *)
(***************************************************************************)
C25_TopLevelBundleChosen ==
  (MacInstallReturned /\ Did("extract")) =>
    LET tops == TopLevelBundles(macReturned[1].archive)
        unit == macReturned[1].unit
    IN /\ tops # {} => (unit # None /\ Len(unit[1]) = 1 /\ unit[1][1] \in tops)
       /\ unit = None => tops = {}


(***************************************************************************)
(* C26 as stated: when two install calls run concurrently, the recorded    *)
(* installer path and the recorded lifetime-owning handle are updated as   *)
(* one atomic unit under one lock: in every reachable state of every       *)
(* interleaving they refer to the same staged file.  Refuted by the code:  *)
(* the handle is in a Mutex and the path in a separate OnceLock, assigned  *)
(* by two statements, and the OnceLock keeps the first path while the      *)
(* Mutex keeps the last handle.                                            *)
(***************************************************************************)
C26_PathAndHandleAgree == UPDATER_FILE = TEMP_FILE_KEEPER

(***************************************************************************)
(* C26, in the states where no install call is between its two             *)
(* assignments: once both calls have returned, the recorded path and the   *)
(* recorded handle refer to the same staged file.  Refuted as well.        *)
(***************************************************************************)
C26_PathAndHandleAgreeAtRest ==
  (\A t \in InstallThreads : threads[t].pc \in {"idle", "done"}) =>
    UPDATER_FILE = TEMP_FILE_KEEPER


(***************************************************************************)
(* An application from the builder on: it builds the Updater, calls check  *)
(* on the Updater it holds, and goes on with the Updater that check        *)
(* returned.                                                               *)
(***************************************************************************)
InitResolve ==
  /\ WinIdle
  /\ MacIdle
  /\ target_os \in TargetOs
  /\ target_arch = "x86_64"
  /\ current_version \in Versions
  /\ release \in UpdateReleases
  /\ installer_args = <<>>
  /\ resolved = Unresolved
  /\ stage = "builder"
  /\ returned = None
  /\ calls = 0
  /\ netReturned = None

\* if let Some(updater) = updater.check().await? { ... }: the application
\* goes on with the Updater that check returned
UseChecked ==
  /\ stage = "built"
  /\ returned # None
  /\ returned[1].op = "check"
  /\ returned[1].value.ok
  /\ returned[1].value.val # None
  /\ resolved' = [latest_release |-> returned[1].value.val[1].latest_release,
                  proper_asset |-> returned[1].value.val[1].proper_asset]
  /\ UNCHANGED <<target_os, target_arch, current_version, release,
                 installer_args, stage>>
  /\ UNCHANGED <<returned, calls, netReturned, winVars, macVars>>

NextResolve == Build \/ Check \/ UseChecked

SpecResolve == InitResolve /\ [][NextResolve]_vars

\* the assets of a converted release
AssetsOf(rel) == { rel.assets[i] : i \in 1..Len(rel.assets) }

(***************************************************************************)
(* C27: every Updater produced by build has neither resolved field set;    *)
(* every Updater returned by check has both set, and the resolved asset is *)
(* an element of the asset list of the resolved release; no Updater        *)
(* produced through build and check has exactly one of the two set.        *)
(***************************************************************************)
C27_ResolvedFieldsTogether ==
  [][ /\ (stage = "builder" /\ stage' = "built") => resolved' = Unresolved
      /\ (returned' # returned /\ returned'[1].op = "check"
             /\ returned'[1].value.ok /\ returned'[1].value.val # None) =>
            LET u == returned'[1].value.val[1]
            IN /\ u.latest_release # None
               /\ u.proper_asset # None
               /\ u.proper_asset[1] \in AssetsOf(u.latest_release[1])
      /\ (resolved'.latest_release = None) <=> (resolved'.proper_asset = None)
    ]_vars

\* the application holds an Updater that check returned, with both fields
C27_Witness ==
  /\ stage = "built"
  /\ CheckReturned
  /\ IsUpdater(returned[1].value)
  /\ resolved.latest_release = returned[1].value.val[1].latest_release
  /\ resolved.proper_asset = returned[1].value.val[1].proper_asset
  /\ resolved.proper_asset # None

\* the application holds an Updater fresh from build, whose check found no
\* update
C27_WitnessBuilt ==
  /\ stage = "built"
  /\ CheckReturned
  /\ IsNoUpdate(returned[1].value)
  /\ resolved = Unresolved


(***************************************************************************)
(* C28 as stated: download called on an Updater that has no resolved asset *)
(* returns AssetNotFound, without sending any request and without calling  *)
(* on_chunk.  Refuted by the code: the configured proxy is handed to       *)
(* reqwest before the asset is looked at, and a proxy that reqwest rejects *)
(* makes download return that error instead.                               *)
(***************************************************************************)
C28_NoAssetIsAssetNotFound ==
  (DownloadReturned /\ netReturned[1].asset = None) =>
    /\ netReturned[1].value = Err("AssetNotFound", "")
    /\ ~netReturned[1].sent
    /\ netReturned[1].on_chunk = <<>>

(***************************************************************************)
(* C28 amended: download called on an Updater that has no resolved asset   *)
(* sends no request and never calls on_chunk; it returns AssetNotFound,    *)
(* except that with a configured proxy that reqwest rejects it returns the *)
(* Reqwest error of the proxy.                                             *)
(***************************************************************************)
C28_NoAssetNoRequest ==
  (DownloadReturned /\ netReturned[1].asset = None) =>
    /\ netReturned[1].value = IF netReturned[1].proxy = "invalid"
                              THEN Err("Reqwest", "proxy")
                              ELSE Err("AssetNotFound", "")
    /\ ~netReturned[1].sent
    /\ netReturned[1].status = None
    /\ netReturned[1].on_chunk = <<>>

\* download returned AssetNotFound for an Updater without a resolved asset,
\* in an environment where the request would have been answered with a body
C28_Witness ==
  /\ DownloadReturned
  /\ netReturned[1].asset = None
  /\ netReturned[1].value = Err("AssetNotFound", "")
  /\ netReturned[1].stream # <<>>

(***************************************************************************)
(* C29 as stated: a failed install leaves the recorded installer path and  *)
(* the recorded lifetime-owning handle exactly as they were before the     *)
(* call; a second install in the same process that fails does not replace  *)
(* or release the handle recorded by the first.  Refuted by the code: the  *)
(* second install replaces the handle, which deletes the file of the       *)
(* first, and only then fails at OnceLock::set.                            *)
(***************************************************************************)
C29_FailedInstallKeepsHandoff ==
  [][ (winReturned' # None /\ winReturned'[1].op = "install"
         /\ ~winReturned'[1].value.ok) =>
        /\ UPDATER_FILE' = UPDATER_FILE
        /\ TEMP_FILE_KEEPER' = TEMP_FILE_KEEPER
        /\ TEMP_FILE_KEEPER # None =>
             disk'[TEMP_FILE_KEEPER[1]] = disk[TEMP_FILE_KEEPER[1]]
    ]_vars


(***************************************************************************)
(* C30: install on the atomic-swap platform returns success only in a      *)
(* state where the install path holds the replacement content that the     *)
(* call extracted; it never returns success while the install path still   *)
(* holds the previous content or holds nothing.                            *)
(***************************************************************************)
C30_SuccessMeansReplaced ==
  (MacInstallReturned /\ Returns(macReturned[1].value) /\ macReturned[1].value.ok) =>
    /\ macfs["install"] = macReturned[1].staged
    /\ macfs["install"] # macReturned[1].before
    /\ macfs["install"] # NoDir
    /\ Did("swap")

\* a successful install of the whole extracted tree through the privileged
\* script
C30_Witness ==
  /\ MacInstallReturned
  /\ macReturned[1].value = Ok(Unit)
  /\ macReturned[1].rename1 = "perm"
  /\ macReturned[1].unit = None
  /\ macfs["install"] = macReturned[1].staged

\* a successful install of the bundle by renames
C30_WitnessUnprivileged ==
  /\ MacInstallReturned
  /\ macReturned[1].value = Ok(Unit)
  /\ macReturned[1].rename1 = "ok"
  /\ macReturned[1].unit # None
  /\ macfs["install"] = macReturned[1].staged


\* the path of a name joined to the extraction directory leaves that
\* directory: the name is absolute, or at some point it has climbed more
\* parent directories than it has descended
Escapes(abs, comps) ==
  \/ abs
  \/ \E k \in 1..Len(comps) :
       Cardinality({ i \in 1..k : comps[i].name = ".." })
         > Cardinality({ i \in 1..k : comps[i].name # ".." })

\* the names of the entries of an archive that do not escape, in order
RECURSIVE Enclosed(_)
Enclosed(archive) ==
  IF archive = <<>> THEN <<>>
  ELSE (IF Escapes(Head(archive).abs, Head(archive).comps) THEN <<>>
        ELSE <<Head(archive).comps>>) \o Enclosed(Tail(archive))

(***************************************************************************)
(* C31: during extraction no file or directory is created outside the      *)
(* temporary extraction directory: an archive entry whose name would       *)
(* escape it (an absolute path, or parent-directory components that climb  *)
(* above it) is skipped, and the other entries are still extracted, in the *)
(* order of the archive.                                                   *)
(***************************************************************************)
C31_ExtractionStaysInside ==
  (MacInstallReturned /\ Did("extract")) =>
    /\ \A i \in 1..Len(macReturned[1].files) :
         ~Escapes(FALSE, macReturned[1].files[i])
    /\ macReturned[1].files = Enclosed(macReturned[1].archive)

\* an archive with an entry that descends and then climbs out was
\* extracted: that entry was skipped and the two after it were created
C31_Witness ==
  /\ MacInstallReturned
  /\ Did("extract")
  /\ macReturned[1].archive = ArchiveClimb
  /\ Len(macReturned[1].files) = 2

====
